---- MODULE Spec2Model ----
(***************************************************************************)
(* Reconciliation of Feishu departments and users into the RuoYi tables    *)
(* sys_dept and sys_user (database-direct variant, sync_to_ruoyi_db.py).   *)
(*                                                                         *)
(* A table is a sequence of rows in primary-key order.  Strings of the     *)
(* program are strings here, "" standing for both '' and NULL; the         *)
(* ancestors column "0,100,7" is the sequence <<0, 100, 7>> and the empty  *)
(* column is <<>>; a NULL level is NullLevel.                              *)
(*                                                                         *)
(* The extraction (fetch_feishu_data.py) that the synchronisation starts   *)
(* as its step 0/3 is modelled with the Feishu API as an organisation and  *)
(* a set of badly answered requests; the workers of get_all_users finish   *)
(* and are collected in any order.                                         *)
(***************************************************************************)
EXTENDS Integers, Sequences, FiniteSets, TLC

VARIABLES sys_dept,       \* rows of table sys_dept
          sys_user,       \* rows of table sys_user
          sys_user_role,  \* rows (user_id, role_id) of table sys_user_role
          feishu_depts,   \* records of output/feishu_departments.csv
          feishu_users,   \* records of output/feishu_users.csv
          DRY_RUN,        \* the --dry-run flag of the current process
          pc,             \* position of __main__ of sync_to_ruoyi_db.py: "start",
                          \* "fetch" (step 0/3 runs), "main" (step 1/3 is next),
                          \* "users" (step 2/3 is next), "exit" (sys.exit(1))
          dept_result,    \* what sync_departments returned to __main__
          deptRun,        \* record of the latest sync_departments run
          prevDeptRun,    \* record of the sync_departments run before it
          userRun,        \* record of the latest sync_users run
          prevUserRun,    \* record of the sync_users run before it
          runs,           \* number of finished processes
          feishu_org,       \* the departments and users the Feishu API serves
          responses,        \* the requests the API answers badly, and how
          AUTO_YES,         \* the --yes flag of the orchestrating process
          csv_exists,       \* which files of output/ exist
          fetch_pc,         \* position of the fetch_feishu_data.py process
          returncode,       \* its exit status
          total_user_count, \* what get_total_user_count returned
          dept_list,        \* get_department_info: the departments fetched
          futures,          \* get_all_users: state of the future of each department
          all_dept_users,   \* get_all_users: the lists collected so far
          processed_count,  \* get_all_users: futures handled so far
          all_users,        \* get_all_users: the deduplicated users
          total_fetched,    \* get_all_users: users fetched, duplicates included
          retry_counter,    \* get_all_users: retry_counter['count']
          in_worker,        \* of the worker of each department: the rate-limit
                            \* responses it has counted, and the count it has read
                            \* and not yet written back in "retry_counter['count'] += 1"
          level_cache,      \* sync_to_ruoyi.py: the level_cache dict of calculate_level
          last_call         \* the latest call of a function applied on its own:
                            \* its name, argument and return value

\* the variables of the synchronisation and of the extraction
syncVars == <<sys_dept, sys_user, sys_user_role, feishu_depts, feishu_users, DRY_RUN, pc,
              dept_result, deptRun, prevDeptRun, userRun, prevUserRun, runs>>

fetchVars == <<feishu_org, responses, AUTO_YES, csv_exists, fetch_pc, returncode,
               total_user_count, dept_list, futures, all_dept_users, processed_count,
               all_users, total_fetched, retry_counter, in_worker>>

\* the variables of the functions applied on their own
fnVars == <<level_cache, last_call>>

vars == <<syncVars, fetchVars, fnVars>>

----------------------------------------------------------------------------
(* Program constants *)

DefaultRootId == 100      \* "100是若依默认根部门ID"
LevelRange == 6           \* for level in range(6)
DryRandLow == 1000        \* random.randint(1000, 9999)
NullLevel == -1           \* a NULL sys_dept.level
MAX_RETRIES == 3          \* attempts of request_with_retry
RateRetries == 3          \* for retry in range(3)
RateLimited == 99991400   \* response code: frequency limit
ServiceUnavailable == 2200 \* response code: service unavailable
NoTotal == -2             \* get_total_user_count returned None

(* Bounds of the model *)

MaxRuns == 2              \* processes run one after the other in a behaviour
MaxFailPos == 1           \* the write calls of a run that may fail: the first MaxFailPos

----------------------------------------------------------------------------
(* Small helpers *)

SeqMax(S) == IF S = {} THEN 0 ELSE CHOOSE m \in S : \A x \in S : x <= m

RECURSIVE SelectIdx(_, _, _)
\* indices i of s, in order, with Test(s[i]) given as the set of accepted indices
SelectIdx(s, ok, i) ==
    IF i > Len(s) THEN <<>>
    ELSE (IF i \in ok THEN <<s[i]>> ELSE <<>>) \o SelectIdx(s, ok, i + 1)

\* dict.get(k, default)
DictGet(d, k, default) == IF k \in DOMAIN d THEN d[k] ELSE default

\* d[k] = v on a dict
DictPut(d, k, v) == [x \in DOMAIN d \cup {k} |-> IF x = k THEN v ELSE d[x]]

EmptyDict == [x \in {} |-> 0]

----------------------------------------------------------------------------
(* RuoYiDB: department statements *)

\* cursor.lastrowid of an AUTO_INCREMENT insert
LastRowId(table) == SeqMax({table[i].dept_id : i \in DOMAIN table}) + 1

\* Variant of InsertedDept: the INSERT leaves feishu_dept_id out.
InsertedDept_NoKey(dept_data, dept_id) ==
    [dept_id |-> dept_id,
     parent_id |-> dept_data.parent_id,
     ancestors |-> dept_data.ancestors,
     dept_name |-> dept_data.dept_name,
     level |-> dept_data.level,
     feishu_dept_id |-> "",
     status |-> "0",
     del_flag |-> "0"]

\* the row INSERTed by create_department
InsertedDept(dept_data, dept_id) ==
    [dept_id |-> dept_id,
     parent_id |-> dept_data.parent_id,
     ancestors |-> dept_data.ancestors,
     dept_name |-> dept_data.dept_name,
     level |-> dept_data.level,
     feishu_dept_id |-> dept_data.feishu_dept_id,
     status |-> "0",
     del_flag |-> "0"]

\* Variant of UpdateDeptRows: the statement sets feishu_dept_id as well.
UpdateDeptRows_SetKey(table, dept_id, dept_data) ==
    [i \in DOMAIN table |->
        IF table[i].dept_id = dept_id
        THEN [table[i] EXCEPT !.dept_name = dept_data.dept_name,
                              !.parent_id = dept_data.parent_id,
                              !.ancestors = dept_data.ancestors,
                              !.level = dept_data.level,
                              !.feishu_dept_id = dept_data.dept_name]
        ELSE table[i]]

\* UPDATE sys_dept SET dept_name, parent_id, ancestors, level WHERE dept_id
UpdateDeptRows(table, dept_id, dept_data) ==
    [i \in DOMAIN table |->
        IF table[i].dept_id = dept_id
        THEN [table[i] EXCEPT !.dept_name = dept_data.dept_name,
                              !.parent_id = dept_data.parent_id,
                              !.ancestors = dept_data.ancestors,
                              !.level = dept_data.level]
        ELSE table[i]]

\* UPDATE sys_dept SET status = '1' WHERE dept_id
DisableDeptRows(table, dept_id) ==
    [i \in DOMAIN table |->
        IF table[i].dept_id = dept_id
        THEN [table[i] EXCEPT !.status = "1"]
        ELSE table[i]]

\* get_departments: SELECT * FROM sys_dept, or [] when the query raises
get_departments(table, env) == IF env.listFails THEN <<>> ELSE table

\* A call as the adapter receives it.
DeptCall(op, key, id, data, info, ok) ==
    [op |-> op, key |-> key, id |-> id, dept_name |-> data.dept_name,
     parent_id |-> data.parent_id, ancestors |-> data.ancestors,
     level |-> data.level, info |-> info, ok |-> ok]

NoData == [dept_name |-> "", parent_id |-> 0, ancestors |-> <<>>, level |-> NullLevel]

\* One entry of update_info: the field and its old and new value.
Info(field, oldS, newS, oldN, newN) ==
    [field |-> field, oldS |-> oldS, newS |-> newS, oldN |-> oldN, newN |-> newN]

\* The statement of the next write call raises pymysql.Error: the calls of a
\* run are numbered in the order they are made, env.fail holds the numbers
\* of those that fail.
Fails(st, env) == (Len(st.calls) + 1) \in env.fail

\* Where the next write call raises: at its first cursor.execute, at its
\* last cursor.execute (the same one when the call has a single statement),
\* at connection.commit(), or nowhere ("none").
FailStage(st, env) == IF Fails(st, env) THEN env.stage ELSE "none"

\* The connection is opened with autocommit=False: st.db is the database as
\* committed, which is what the target holds, and st.open is the database
\* as the open transaction of the connection sees it.
\*
\* Variant of Handled: the except branch does not roll back.
Handled_NoRollback(tx) ==
    [ok |-> ~tx.raised, db |-> tx.committed, open |-> tx.open]

\* the end of a write call: "except pymysql.Error: self.connection.rollback()"
\* when a statement or the commit raised
Handled(tx) ==
    [ok |-> ~tx.raised, db |-> tx.committed,
     open |-> IF tx.raised THEN tx.committed ELSE tx.open]

\* The body "try: cursor.execute(...) ...; self.connection.commit()" of a
\* write call that raises at `stage`; after[k] is the open transaction once
\* the first k statements are executed.  Returns [ok, db, open].
Transact(st, stage, after) ==
    LET Reached(n) ==
            IF stage = "first" THEN st.open
            ELSE IF stage = "last" THEN (IF n = 1 THEN st.open ELSE after[n - 1])
            ELSE after[n]
    IN Handled([committed |-> IF stage = "none" THEN after[Len(after)] ELSE st.db,
                open |-> Reached(Len(after)),
                raised |-> stage # "none"])

\* create_department: the id returned (0 for None) and the table afterwards;
\* in a dry run the id is random.randint(1000, 9999)
create_department(st, dept_data, env) ==
    LET Returned(id, t) ==
            [id |-> IF t.ok THEN id ELSE 0, db |-> t.db, open |-> t.open]
        Inserted(id) ==
            Returned(id, Transact(st, FailStage(st, env),
                                  <<Append(st.open, InsertedDept(dept_data, id))>>))
    IN IF env.dry
       THEN [id |-> DryRandLow + env.randStep * Len(SelectIdx(st.calls,
                        {i \in DOMAIN st.calls : st.calls[i].op = "create_department"}, 1)),
             db |-> st.db, open |-> st.open]
       ELSE Inserted(LastRowId(st.open))

\* update_department: success flag and the table afterwards
update_department(st, dept_id, dept_data, env) ==
    IF env.dry THEN [ok |-> TRUE, db |-> st.db, open |-> st.open]
    ELSE Transact(st, FailStage(st, env), <<UpdateDeptRows(st.open, dept_id, dept_data)>>)

\* disable_department: success flag and the table afterwards
disable_department(st, dept_id, env) ==
    IF env.dry THEN [ok |-> TRUE, db |-> st.db, open |-> st.open]
    ELSE Transact(st, FailStage(st, env), <<DisableDeptRows(st.open, dept_id)>>)

----------------------------------------------------------------------------
(* sync_departments *)

\* feishu_depts_dict = {dept['dept_id']: dept for dept in feishu_depts}
FeishuDeptsDict(depts) ==
    [k \in {depts[i].dept_id : i \in DOMAIN depts} |->
        depts[SeqMax({i \in DOMAIN depts : depts[i].dept_id = k})]]

\* ruoyi_dept_map: feishu_dept_id -> row, for the rows with a non-empty field;
\* a later row replaces an earlier one with the same key.
RuoyiDeptMap(rows) ==
    [k \in {rows[i].feishu_dept_id : i \in DOMAIN rows} \ {""} |->
        rows[SeqMax({i \in DOMAIN rows : rows[i].feishu_dept_id = k})]]

\* Variant of BuildAncestors: every department gets the path of a child of
\* the root.
BuildAncestors_Root(ruoyi_depts, parent_ruoyi_id) ==
    <<0, DefaultRootId>>

\* the ancestors built for a department placed under parent_ruoyi_id:
\* the first row of ruoyi_depts with that dept_id supplies the prefix
BuildAncestors(ruoyi_depts, parent_ruoyi_id) ==
    IF parent_ruoyi_id = DefaultRootId THEN <<0, DefaultRootId>>
    ELSE LET hits == {i \in DOMAIN ruoyi_depts : ruoyi_depts[i].dept_id = parent_ruoyi_id}
         IN IF hits # {} /\ ruoyi_depts[CHOOSE i \in hits : \A j \in hits : i <= j].ancestors # <<>>
            THEN Append(ruoyi_depts[CHOOSE i \in hits : \A j \in hits : i <= j].ancestors,
                        parent_ruoyi_id)
            ELSE <<0, DefaultRootId, parent_ruoyi_id>>

\* Variant of DeptUpdateInfo: the level is not compared.
DeptUpdateInfo_NoLevel(existing_dept, dept, parent_ruoyi_id) ==
    (IF existing_dept.dept_name # dept.dept_name
     THEN <<Info("dept_name", existing_dept.dept_name, dept.dept_name, 0, 0)>> ELSE <<>>)
    \o (IF existing_dept.parent_id # parent_ruoyi_id
        THEN <<Info("parent_id", "", "", existing_dept.parent_id, parent_ruoyi_id)>> ELSE <<>>)
    \o (IF existing_dept.ancestors = <<>>
        THEN <<Info("ancestors", "", "", 0, 0)>> ELSE <<>>)

\* update_info of a matched department
DeptUpdateInfo(existing_dept, dept, parent_ruoyi_id) ==
    (IF existing_dept.dept_name # dept.dept_name
     THEN <<Info("dept_name", existing_dept.dept_name, dept.dept_name, 0, 0)>> ELSE <<>>)
    \o (IF existing_dept.level # dept.level
        THEN <<Info("level", "", "", existing_dept.level, dept.level)>> ELSE <<>>)
    \o (IF existing_dept.parent_id # parent_ruoyi_id
        THEN <<Info("parent_id", "", "", existing_dept.parent_id, parent_ruoyi_id)>> ELSE <<>>)
    \o (IF existing_dept.ancestors = <<>>
        THEN <<Info("ancestors", "", "", 0, 0)>> ELSE <<>>)

\* History of the run: department dept_id took the matched or the create
\* branch, after `at` write calls, with its parent resolved to parent_ruoyi_id.
Visit(dept_id, branch, st, parent_ruoyi_id) ==
    [key |-> dept_id, branch |-> branch, at |-> Len(st.calls), parent |-> parent_ruoyi_id]

\* The matched branch of create_dept_recursive: the department is in
\* ruoyi_dept_map; its id is mapped, its fields are compared, and it is
\* updated when update_info is not empty.  Returns [st, ret].
MatchedDept(dept_id, dept, s1, parent_ruoyi_id, env) ==
    LET existing_dept == s1.ruoyi_dept_map[dept_id]
        Mapped(s) ==
            [s EXCEPT !.dept_id_map = DictPut(@, dept_id, existing_dept.dept_id),
                      !.visited = Append(@, Visit(dept_id, "match", s, parent_ruoyi_id))]
        Written(s2, dept_data, update_info, w) ==
            [s2 EXCEPT !.dept_updated_count = @ + 1,
                       !.db = w.db, !.open = w.open,
                       !.calls = Append(@, DeptCall("update_department", dept_id,
                                     existing_dept.dept_id, dept_data, update_info, w.ok))]
        Compared(s2, dept_data, update_info) ==
            IF update_info # <<>>
            THEN Written(s2, dept_data, update_info,
                         update_department(s2, existing_dept.dept_id, dept_data, env))
            ELSE s2
    IN [st |-> Compared(Mapped(s1),
                        [dept_name |-> dept.dept_name, parent_id |-> parent_ruoyi_id,
                         ancestors |-> BuildAncestors(s1.ruoyi_depts, parent_ruoyi_id),
                         level |-> dept.level],
                        DeptUpdateInfo(existing_dept, dept, parent_ruoyi_id)),
        ret |-> existing_dept.dept_id]

\* The other branch of create_dept_recursive: the department is created;
\* when create_department returns no id the parent's id is returned.
\* Returns [st, ret].
NewDept(dept_id, dept, s1, parent_ruoyi_id, env) ==
    LET Called(dept_data, w) ==
            [s1 EXCEPT !.db = w.db, !.open = w.open,
                       !.visited = Append(@, Visit(dept_id, "create", s1, parent_ruoyi_id)),
                       !.calls = Append(@, DeptCall("create_department", dept_id, w.id,
                                                    dept_data, <<>>, w.id # 0))]
        Kept(s2, new_dept) ==
            [s2 EXCEPT !.dept_created_count = @ + 1,
                       !.dept_id_map = DictPut(@, dept_id, new_dept.dept_id),
                       !.ruoyi_depts = Append(@, new_dept),
                       !.ruoyi_dept_map = DictPut(@, dept_id, new_dept)]
        Created(dept_data, w) ==
            IF w.id # 0
            THEN [st |-> Kept(Called(dept_data, w),
                              [dept_id |-> w.id, parent_id |-> parent_ruoyi_id,
                               ancestors |-> dept_data.ancestors, dept_name |-> dept.dept_name,
                               level |-> dept.level, feishu_dept_id |-> dept_id,
                               status |-> "None", del_flag |-> "None"]),
                  ret |-> w.id]
            ELSE [st |-> Called(dept_data, w), ret |-> parent_ruoyi_id]
        Create(dept_data) == Created(dept_data, create_department(s1, dept_data, env))
    IN Create([dept_name |-> dept.dept_name, parent_id |-> parent_ruoyi_id,
               ancestors |-> BuildAncestors(s1.ruoyi_depts, parent_ruoyi_id),
               level |-> dept.level, feishu_dept_id |-> dept_id])

\* The body of create_dept_recursive after the parent is resolved (up is
\* what the recursive call returned).  Returns [st, ret].
ProcessDept(dept_id, dept, up, env) ==
    IF up.st.crashed THEN [st |-> up.st, ret |-> 0]
    ELSE IF dept_id \in DOMAIN up.st.ruoyi_dept_map
    THEN MatchedDept(dept_id, dept, up.st, up.ret, env)
    ELSE NewDept(dept_id, dept, up.st, up.ret, env)

\* Variant of create_dept_recursive: the parent is looked up in dept_id_map
\* instead of being resolved first.
create_dept_norecurse(dept_id, feishu_depts_dict, st, env, depth) ==
    IF dept_id \in DOMAIN st.dept_id_map \/ dept_id = "0"
    THEN [st |-> st, ret |-> DictGet(st.dept_id_map, dept_id, DefaultRootId)]
    ELSE IF dept_id \notin DOMAIN feishu_depts_dict
    THEN [st |-> st, ret |-> DefaultRootId]
    ELSE ProcessDept(dept_id, feishu_depts_dict[dept_id],
                     [st |-> st,
                      ret |-> DictGet(st.dept_id_map,
                                      feishu_depts_dict[dept_id].parent_dept_id, DefaultRootId)],
                     env)

RECURSIVE create_dept_recursive(_, _, _, _, _)
\* Returns [st, ret]: the run state afterwards and the returned target id.
\* depth counts the nested calls; a chain of parents longer than the extract
\* has a cycle, on which the recursion of the program never ends: the
\* interpreter raises RecursionError, which nothing in the run catches.
create_dept_recursive(dept_id, feishu_depts_dict, st, env, depth) ==
    IF st.crashed THEN [st |-> st, ret |-> 0]
    ELSE IF dept_id \in DOMAIN st.dept_id_map \/ dept_id = "0"
    THEN [st |-> st, ret |-> DictGet(st.dept_id_map, dept_id, DefaultRootId)]
    ELSE IF dept_id \notin DOMAIN feishu_depts_dict
    THEN [st |-> st, ret |-> DefaultRootId]
    ELSE IF depth > Cardinality(DOMAIN feishu_depts_dict)
    THEN [st |-> [st EXCEPT !.crashed = TRUE], ret |-> 0]
    ELSE ProcessDept(dept_id, feishu_depts_dict[dept_id],
                     create_dept_recursive(feishu_depts_dict[dept_id].parent_dept_id,
                                           feishu_depts_dict, st, env, depth + 1),
                     env)

\* the departments of one pass of "for level in range(6)", in extract order
LevelDepts(depts, level) ==
    SelectIdx(depts, {i \in DOMAIN depts : depts[i].level = level}, 1)

RECURSIVE LevelOrder(_, _)
\* the top-level calls of the run, in order: level 0, 1, ..., LevelRange - 1
LevelOrder(depts, level) ==
    IF level >= LevelRange THEN <<>>
    ELSE LevelDepts(depts, level) \o LevelOrder(depts, level + 1)

RECURSIVE CreateAll(_, _, _, _, _)
\* for dept in level_depts: create_dept_recursive(dept['dept_id'], feishu_depts_dict)
CreateAll(order, i, feishu_depts_dict, st, env) ==
    IF i > Len(order) THEN st
    ELSE CreateAll(order, i + 1, feishu_depts_dict,
                   create_dept_recursive(order[i].dept_id, feishu_depts_dict, st, env, 1).st,
                   env)

\* Variant of DepartmentsToDisable: the extract is not consulted.
DepartmentsToDisable_All(ruoyi_depts, depts) ==
    SelectIdx(ruoyi_depts,
              {i \in DOMAIN ruoyi_depts :
                  /\ ruoyi_depts[i].feishu_dept_id # ""
                  /\ ruoyi_depts[i].del_flag = "0"
                  /\ ruoyi_depts[i].status = "0"}, 1)

\* departments_to_disable
DepartmentsToDisable(ruoyi_depts, depts) ==
    LET feishu_dept_ids == {depts[i].dept_id : i \in DOMAIN depts}
    IN SelectIdx(ruoyi_depts,
                 {i \in DOMAIN ruoyi_depts :
                     /\ ruoyi_depts[i].feishu_dept_id # ""
                     /\ ruoyi_depts[i].feishu_dept_id \notin feishu_dept_ids
                     /\ ruoyi_depts[i].del_flag = "0"
                     /\ ruoyi_depts[i].status = "0"}, 1)

RECURSIVE DisableAll(_, _, _, _)
\* for dept in departments_to_disable: db.disable_department(...); every
\* department of the list counts as disabled (len(departments_to_disable))
DisableAll(todo, i, st, env) ==
    LET Called(w) ==
            [st EXCEPT !.db = w.db, !.open = w.open,
                       !.dept_disabled_count = @ + 1,
                       !.calls = Append(@, DeptCall("disable_department",
                                     todo[i].feishu_dept_id, todo[i].dept_id,
                                     NoData, <<>>, w.ok))]
    IN IF i > Len(todo) THEN st
       ELSE DisableAll(todo, i + 1, Called(disable_department(st, todo[i].dept_id, env)), env)

\* The state of a run of sync_departments after get_departments returned
\* ruoyi_depts: the table, the list and the map built from it, empty
\* dept_id_map, counters at 0; calls, visited, crashed and listed are the
\* history of the run.
DeptRunStart(table, ruoyi_depts) ==
    [db |-> table,
     open |-> table,
     ruoyi_depts |-> ruoyi_depts,
     ruoyi_dept_map |-> RuoyiDeptMap(ruoyi_depts),
     dept_id_map |-> EmptyDict,
     dept_created_count |-> 0,
     dept_updated_count |-> 0,
     dept_disabled_count |-> 0,
     calls |-> <<>>,
     visited |-> <<>>,
     crashed |-> FALSE,
     listed |-> ruoyi_depts]

\* the disable pass, which a run ended by RecursionError does not reach
DisablePass(s1, depts, env) ==
    IF s1.crashed THEN s1
    ELSE DisableAll(DepartmentsToDisable(s1.ruoyi_depts, depts), 1, s1, env)

\* The whole of sync_departments on table `table` and extract `depts`: the
\* state of the run at its end, which holds what the function returns.
sync_departments(table, depts, env) ==
    DisablePass(CreateAll(LevelOrder(depts, 0), 1, FeishuDeptsDict(depts),
                          DeptRunStart(table, get_departments(table, env)), env),
                depts, env)

----------------------------------------------------------------------------
(* RuoYiDB: user statements.  The database of the user phase is the pair   *)
(* of tables [users, roles]: sys_user and sys_user_role.                   *)

DefaultRoleId == 2        \* cursor.execute(role_sql, (user_id, 2))

LastUserRowId(table) == SeqMax({table[i].user_id : i \in DOMAIN table}) + 1

\* the row INSERTed by create_user
InsertedUser(user_data, user_id) ==
    [user_id |-> user_id,
     user_name |-> user_data.user_name,
     nick_name |-> user_data.nick_name,
     email |-> user_data.email,
     dept_id |-> user_data.dept_id,
     feishu_union_id |-> user_data.feishu_union_id,
     feishu_open_id |-> user_data.feishu_open_id,
     status |-> "0",
     del_flag |-> "0"]

\* UPDATE sys_user SET dept_id, nick_name, email, feishu_open_id WHERE user_id
UpdateUserRows(table, user_data) ==
    [i \in DOMAIN table |->
        IF table[i].user_id = user_data.user_id
        THEN [table[i] EXCEPT !.dept_id = user_data.dept_id,
                              !.nick_name = user_data.nick_name,
                              !.email = user_data.email,
                              !.feishu_open_id = user_data.feishu_open_id]
        ELSE table[i]]

\* Variant of DisableUserRows: DELETE FROM sys_user WHERE user_id.
DisableUserRows_Delete(table, user_id) ==
    SelectIdx(table, {i \in DOMAIN table : table[i].user_id # user_id}, 1)

\* UPDATE sys_user SET status = '1' WHERE user_id
DisableUserRows(table, user_id) ==
    [i \in DOMAIN table |->
        IF table[i].user_id = user_id
        THEN [table[i] EXCEPT !.status = "1"]
        ELSE table[i]]

\* get_users: SELECT * FROM sys_user WHERE del_flag = '0', or [] when it raises
get_users(table, env) ==
    IF env.listFails THEN <<>>
    ELSE SelectIdx(table, {i \in DOMAIN table : table[i].del_flag = "0"}, 1)

UserCall(op, user_data, info, ok) ==
    [op |-> op, key |-> user_data.feishu_union_id, id |-> user_data.user_id,
     user_name |-> user_data.user_name, nick_name |-> user_data.nick_name,
     email |-> user_data.email, dept_id |-> user_data.dept_id,
     feishu_open_id |-> user_data.feishu_open_id, info |-> info, ok |-> ok]

\* create_user: the id returned (0 for None) and the database afterwards;
\* the INSERT into sys_user and the INSERT into sys_user_role are the two
\* statements of one transaction
create_user(st, user_data, env) ==
    LET Returned(id, t) ==
            [id |-> IF t.ok THEN id ELSE 0, db |-> t.db, open |-> t.open]
        WithUser(id) ==
            [st.open EXCEPT !.users = Append(@, InsertedUser(user_data, id))]
        WithRole(id) ==
            [WithUser(id) EXCEPT !.roles = @ \cup {<<id, DefaultRoleId>>}]
        Inserted(id) ==
            Returned(id, Transact(st, FailStage(st, env), <<WithUser(id), WithRole(id)>>))
    IN IF env.dry
       THEN [id |-> DryRandLow + env.randStep * Len(SelectIdx(st.calls,
                        {i \in DOMAIN st.calls : st.calls[i].op = "create_user"}, 1)),
             db |-> st.db, open |-> st.open]
       ELSE Inserted(LastUserRowId(st.open.users))

\* update_user: success flag and the database afterwards
update_user(st, user_data, env) ==
    IF env.dry THEN [ok |-> TRUE, db |-> st.db, open |-> st.open]
    ELSE Transact(st, FailStage(st, env),
                  <<[st.open EXCEPT !.users = UpdateUserRows(@, user_data)]>>)

\* Variant of disable_user: the statement is executed in a dry run as well.
disable_user_NoDry(st, user, env) ==
    Transact(st, FailStage(st, env),
             <<[st.open EXCEPT !.users = DisableUserRows(@, user.user_id)]>>)

\* disable_user: success flag and the database afterwards
disable_user(st, user, env) ==
    IF env.dry THEN [ok |-> TRUE, db |-> st.db, open |-> st.open]
    ELSE Transact(st, FailStage(st, env),
                  <<[st.open EXCEPT !.users = DisableUserRows(@, user.user_id)]>>)

----------------------------------------------------------------------------
(* sync_users *)

\* ruoyi_user_map: feishu_union_id -> row, for the listed rows with a
\* non-empty field; a later row replaces an earlier one with the same key
RuoyiUserMap(rows) ==
    [k \in {rows[i].feishu_union_id : i \in DOMAIN rows} \ {""} |->
        rows[SeqMax({i \in DOMAIN rows : rows[i].feishu_union_id = k})]]

UnknownDeptName == "unknown"    \* "未知部门"

\* old_dept_name: the name of the first row of ruoyi_depts with that dept_id
OldDeptName(ruoyi_depts, dept_id) ==
    LET hits == {i \in DOMAIN ruoyi_depts : ruoyi_depts[i].dept_id = dept_id}
    IN IF hits = {} THEN UnknownDeptName
       ELSE ruoyi_depts[CHOOSE i \in hits : \A j \in hits : i <= j].dept_name

\* new_dept_name: the name of the first entry of ruoyi_dept_map with that
\* dept_id; the dict keeps its keys in the order they were first inserted,
\* which is the order of their first row in ruoyi_depts
NewDeptName(ruoyi_depts, ruoyi_dept_map, dept_id) ==
    LET hits == {i \in DOMAIN ruoyi_depts :
                    /\ ruoyi_depts[i].feishu_dept_id \in DOMAIN ruoyi_dept_map
                    /\ ruoyi_dept_map[ruoyi_depts[i].feishu_dept_id].dept_id = dept_id}
    IN IF hits = {} THEN UnknownDeptName
       ELSE ruoyi_dept_map[ruoyi_depts[CHOOSE i \in hits : \A j \in hits : i <= j]
                                .feishu_dept_id].dept_name

\* Variant of UserUpdateInfo: feishu_open_id is not compared.
UserUpdateInfo_NoOpenId(existing_user, user_data, ruoyi_depts, ruoyi_dept_map) ==
    (IF existing_user.nick_name # user_data.nick_name
     THEN <<Info("nick_name", existing_user.nick_name, user_data.nick_name, 0, 0)>> ELSE <<>>)
    \o (IF existing_user.email # user_data.email
        THEN <<Info("email", existing_user.email, user_data.email, 0, 0)>> ELSE <<>>)
    \o (IF existing_user.dept_id # user_data.dept_id
        THEN <<Info("dept_id", OldDeptName(ruoyi_depts, existing_user.dept_id),
                    NewDeptName(ruoyi_depts, ruoyi_dept_map, user_data.dept_id), 0, 0)>> ELSE <<>>)

\* update_info of a matched user
UserUpdateInfo(existing_user, user_data, ruoyi_depts, ruoyi_dept_map) ==
    (IF existing_user.nick_name # user_data.nick_name
     THEN <<Info("nick_name", existing_user.nick_name, user_data.nick_name, 0, 0)>> ELSE <<>>)
    \o (IF existing_user.email # user_data.email
        THEN <<Info("email", existing_user.email, user_data.email, 0, 0)>> ELSE <<>>)
    \o (IF existing_user.dept_id # user_data.dept_id
        THEN <<Info("dept_id", OldDeptName(ruoyi_depts, existing_user.dept_id),
                    NewDeptName(ruoyi_depts, ruoyi_dept_map, user_data.dept_id), 0, 0)>> ELSE <<>>)
    \o (IF existing_user.feishu_open_id # user_data.feishu_open_id
        THEN <<Info("feishu_open_id", existing_user.feishu_open_id,
                    user_data.feishu_open_id, 0, 0)>> ELSE <<>>)

\* user_data of a source user placed in target department ruoyi_dept_id;
\* user_id is the id of the matched row, 0 when there is none
UserData(feishu_user, ruoyi_dept_id, user_id) ==
    [user_name |-> feishu_user.user_id,
     nick_name |-> feishu_user.name,
     email |-> feishu_user.enterprise_email,
     dept_id |-> ruoyi_dept_id,
     feishu_union_id |-> feishu_user.union_id,
     feishu_open_id |-> feishu_user.open_id,
     user_id |-> user_id]

\* One iteration of "for feishu_user in feishu_users" for a user with a
\* union_id: update the matched row when a field differs, create otherwise
SyncKeyedUser(feishu_user, st, dres, env) ==
    LET Updated(user_data, update_info, w) ==
            [st EXCEPT !.db = w.db, !.open = w.open,
                       !.calls = Append(@, UserCall("update_user", user_data, update_info, w.ok)),
                       !.update_count = IF w.ok THEN @ + 1 ELSE @,
                       !.updated_users = IF w.ok THEN Append(@, feishu_user.user_id) ELSE @]
        Compared(user_data, update_info) ==
            IF update_info # <<>>
            THEN Updated(user_data, update_info, update_user(st, user_data, env))
            ELSE st
        Matched(existing_user, user_data) ==
            Compared(user_data, UserUpdateInfo(existing_user, user_data,
                                               dres.ruoyi_depts, dres.ruoyi_dept_map))
        Created(user_data, w) ==
            [st EXCEPT !.db = w.db, !.open = w.open,
                       !.calls = Append(@, UserCall("create_user", user_data, <<>>, w.id # 0)),
                       !.new_count = IF w.id # 0 THEN @ + 1 ELSE @,
                       !.new_users = IF w.id # 0 THEN Append(@, feishu_user.user_id) ELSE @]
        Create(user_data) == Created(user_data, create_user(st, user_data, env))
        Placed(ruoyi_dept_id) ==
            IF feishu_user.union_id \in DOMAIN st.ruoyi_user_map
            THEN Matched(st.ruoyi_user_map[feishu_user.union_id],
                         UserData(feishu_user, ruoyi_dept_id,
                                  st.ruoyi_user_map[feishu_user.union_id].user_id))
            ELSE Create(UserData(feishu_user, ruoyi_dept_id, 0))
    IN Placed(DictGet(dres.dept_id_map, feishu_user.dept_id, DefaultRootId))

\* Variant of SyncOneUser: a user without union_id is not skipped.
SyncOneUser_NoSkip(feishu_user, st, dres, env) ==
    SyncKeyedUser(feishu_user, st, dres, env)

\* One iteration of "for feishu_user in feishu_users": a user without
\* union_id is skipped with a warning (st.skipped lists the warnings)
SyncOneUser(feishu_user, st, dres, env) ==
    IF feishu_user.union_id = ""
    THEN [st EXCEPT !.skipped = Append(@, feishu_user.user_id)]
    ELSE SyncKeyedUser(feishu_user, st, dres, env)

RECURSIVE SyncAllUsers(_, _, _, _, _)
SyncAllUsers(users, i, st, dres, env) ==
    IF i > Len(users) THEN st
    ELSE SyncAllUsers(users, i + 1, SyncOneUser(users[i], st, dres, env), dres, env)

\* Variant of UsersToDisable: the administrator is not exempt.
UsersToDisable_Admin(ruoyi_users, users) ==
    LET feishu_union_ids == {users[i].union_id : i \in DOMAIN users} \ {""}
    IN SelectIdx(ruoyi_users,
                 {i \in DOMAIN ruoyi_users :
                     /\ ruoyi_users[i].feishu_union_id # ""
                     /\ ruoyi_users[i].feishu_union_id \notin feishu_union_ids}, 1)

\* users_to_disable
UsersToDisable(ruoyi_users, users) ==
    LET feishu_union_ids == {users[i].union_id : i \in DOMAIN users} \ {""}
    IN SelectIdx(ruoyi_users,
                 {i \in DOMAIN ruoyi_users :
                     /\ ruoyi_users[i].feishu_union_id # ""
                     /\ ruoyi_users[i].feishu_union_id \notin feishu_union_ids
                     /\ ruoyi_users[i].user_name # "admin"}, 1)

RECURSIVE DisableAllUsers(_, _, _, _)
\* for user in users_to_disable: if db.disable_user(...): disable_count += 1
DisableAllUsers(todo, i, st, env) ==
    LET Called(user, w) ==
            [st EXCEPT !.db = w.db, !.open = w.open,
                       !.calls = Append(@, UserCall("disable_user",
                                     [user_name |-> user.user_name, nick_name |-> user.nick_name,
                                      email |-> "", dept_id |-> 0,
                                      feishu_union_id |-> user.feishu_union_id,
                                      feishu_open_id |-> "", user_id |-> user.user_id],
                                     <<>>, w.ok)),
                       !.disable_count = IF w.ok THEN @ + 1 ELSE @,
                       !.disabled_users = IF w.ok THEN Append(@, user.user_name) ELSE @]
    IN IF i > Len(todo) THEN st
       ELSE DisableAllUsers(todo, i + 1, Called(todo[i], disable_user(st, todo[i], env)), env)

\* The state of a run of sync_users after get_users returned ruoyi_users:
\* the database, the map built from the list, counters at 0 and empty lists;
\* calls, skipped and listed are the history of the run.
UserRunStart(db, ruoyi_users) ==
    [db |-> db,
     open |-> db,
     ruoyi_user_map |-> RuoyiUserMap(ruoyi_users),
     new_count |-> 0, update_count |-> 0, disable_count |-> 0,
     new_users |-> <<>>, updated_users |-> <<>>, disabled_users |-> <<>>,
     calls |-> <<>>,
     skipped |-> <<>>,
     listed |-> ruoyi_users]

\* the disable pass over the users get_users returned
DisableUsersPass(s1, users, env) ==
    DisableAllUsers(UsersToDisable(s1.listed, users), 1, s1, env)

\* The whole of sync_users on database `db` (tables users, roles), extract
\* `users`, and the results `dres` of the department phase: the state of the
\* run at its end, which holds what the function returns.
sync_users(db, users, dres, env) ==
    DisableUsersPass(SyncAllUsers(users, 1, UserRunStart(db, get_users(db.users, env)),
                                  dres, env),
                     users, env)

----------------------------------------------------------------------------
(* Inputs: department extracts *)

\* a record of feishu_departments.csv (level already through int())
DeptRec(id, name, parent, level) ==
    [dept_id |-> id, dept_name |-> name, parent_dept_id |-> parent, level |-> level]

DeptIds == {"A", "B", "C"}
IdSeq == <<"A", "B", "C">>
DeptName(id) == "n" \o id

\* level values of a hand-made extract: two visited levels and the first
\* level the loop "for level in range(6)" does not visit
LevelVals == {0, 1, LevelRange}

RECURSIVE BfsLevel(_, _, _)
\* the level get_department_info records: 0 for the children of "0", one
\* more per generation, counted along at most `fuel` parents
BfsLevel(id, parent, fuel) ==
    IF fuel = 0 \/ id \notin DOMAIN parent THEN 0
    ELSE IF parent[id] = "0" THEN 0
    ELSE IF parent[id] \notin DOMAIN parent THEN 0
    ELSE BfsLevel(parent[id], parent, fuel - 1) + 1

\* extracts of the ids of sequence ids, in that order, with every choice of
\* parent and of level
FreeExtracts(ids) ==
    LET set == {ids[i] : i \in DOMAIN ids}
    IN {[i \in DOMAIN ids |-> DeptRec(ids[i], DeptName(ids[i]), par[ids[i]], lev[ids[i]])] :
            par \in {f \in [set -> {"0"} \cup DeptIds] : \A d \in set : f[d] # d},
            lev \in [set -> LevelVals]}

\* extracts of all three ids with every choice of parent and three level
\* assignments: as fetched, parents after children, and pushed down by
\* LevelRange - 1 levels
SchemeExtracts ==
    LET n == Len(IdSeq)
    IN {[i \in 1..n |->
            DeptRec(IdSeq[i], DeptName(IdSeq[i]), par[IdSeq[i]],
                    CASE sch = "bfs" -> BfsLevel(IdSeq[i], par, n - 1)
                      [] sch = "inverted" -> (n - 1) - BfsLevel(IdSeq[i], par, n - 1)
                      [] sch = "deep" -> BfsLevel(IdSeq[i], par, n - 1) + (LevelRange - 1))] :
            par \in {f \in [DeptIds -> {"0"} \cup DeptIds] : \A d \in DeptIds : f[d] # d},
            sch \in {"bfs", "inverted", "deep"}}

\* a chain one department deeper than the level loop visits, as fetched
DeepChain ==
    LET ids == <<"A", "B", "C", "D", "E", "F", "G">>
    IN [i \in 1..(LevelRange + 1) |->
            DeptRec(ids[i], DeptName(ids[i]), IF i = 1 THEN "0" ELSE ids[i - 1], i - 1)]

\* an organisation of Z and A, as an earlier run may have created it, grown
\* by B under A and C under B, and edited by hand: B has a level the loop
\* does not visit and is reached through C only
SkippedParent ==
    <<DeptRec("Z", DeptName("Z"), "0", 0), DeptRec("A", DeptName("A"), "Z", 1),
      DeptRec("B", DeptName("B"), "A", LevelRange), DeptRec("C", DeptName("C"), "B", 2)>>

SrcDeptFamily ==
    FreeExtracts(<<"A">>) \cup FreeExtracts(<<"B">>) \cup FreeExtracts(<<"A", "B">>)
    \cup SchemeExtracts
    \cup {DeepChain, SkippedParent}

----------------------------------------------------------------------------
(* Inputs: what a run can meet *)

\* The environment of one phase: the --dry-run flag, the
\* numbers of the write calls that fail, whether the listing query raises, the
\* spacing of the ids random.randint returns in a dry run, and the stage at
\* which a failing write call raises.
Env(dry, fail, listFails, randStep) ==
    [dry |-> dry, fail |-> fail, listFails |-> listFails, randStep |-> randStep,
     stage |-> "commit"]

CleanEnv == Env(FALSE, {}, FALSE, 0)

\* what a phase of a process can meet: a real run in which the write calls
\* numbered in a subset of 1..MaxFailPos fail, at their statement or at the
\* commit, a real run whose listing fails, and dry runs
PhaseEnvs ==
    {Env(FALSE, {}, FALSE, 0)}
    \cup {[Env(FALSE, f, FALSE, 0) EXCEPT !.stage = s] :
            f \in (SUBSET (1..MaxFailPos)) \ {{}}, s \in {"first", "commit"}}
    \cup {Env(FALSE, {}, TRUE, 0)}
    \cup {Env(TRUE, {}, FALSE, 0), Env(TRUE, {}, FALSE, 1), Env(TRUE, {}, TRUE, 1)}

\* what the user phase can meet: create_user has two statements, and the
\* second may be the one that raises
UserPhaseEnvs ==
    PhaseEnvs \cup {[e EXCEPT !.stage = "last"] : e \in {x \in PhaseEnvs : x.fail # {}}}

----------------------------------------------------------------------------
(* Inputs: the target before the first run *)

\* the row RuoYi ships with: the default top-level department
RootRow ==
    [dept_id |-> DefaultRootId, parent_id |-> 0, ancestors |-> <<0>>,
     dept_name |-> "root", level |-> NullLevel, feishu_dept_id |-> "",
     status |-> "0", del_flag |-> "0"]

FreshDepts == <<RootRow>>

\* earlier extracts, from which earlier runs filled the target
HistChain == <<DeptRec("A", DeptName("A"), "0", 0), DeptRec("B", DeptName("B"), "A", 1),
               DeptRec("C", DeptName("C"), "B", 2)>>
HistFlat == <<DeptRec("A", "old", "0", 0), DeptRec("B", DeptName("B"), "0", 0),
              DeptRec("C", DeptName("C"), "B", 1)>>
HistStale == <<DeptRec("Z", DeptName("Z"), "0", 0), DeptRec("A", DeptName("A"), "Z", 1)>>

\* the table a failure-free real run on extract h leaves, from a fresh target
After(h) == sync_departments(FreshDepts, h, CleanEnv).db

\* a row written by hand or by a migration: columns of the sync left blank
Blanked(table, key) ==
    [i \in DOMAIN table |->
        IF table[i].feishu_dept_id = key
        THEN [table[i] EXCEPT !.ancestors = <<>>, !.level = NullLevel]
        ELSE table[i]]

\* a row the administrator removed in RuoYi (del_flag = '2'), or a row that
\* is disabled (status = '1'): by the administrator, or by the disable pass
\* of an earlier run whose extract did not have the department
Flagged(table, key, status, del_flag) ==
    [i \in DOMAIN table |->
        IF table[i].feishu_dept_id = key
        THEN [table[i] EXCEPT !.status = status, !.del_flag = del_flag]
        ELSE table[i]]

\* what was done by hand to the table an earlier run left
HandEdited(table, edit) ==
    CASE edit = "blanked" -> Blanked(table, "A")
      [] edit = "deleted" -> Flagged(table, "Z", "0", "2")
      [] edit = "disabled" -> Flagged(table, "C", "1", "0")
      [] OTHER -> table

InitDeptTables ==
    {FreshDepts}
    \cup {HandEdited(After(v[1]), v[2]) :
            v \in {<<HistChain, "none">>, <<HistFlat, "none">>, <<HistStale, "none">>,
                   <<HistChain, "blanked">>, <<HistStale, "deleted">>,
                   <<HistFlat, "disabled">>}}

----------------------------------------------------------------------------
(* Inputs: user extracts and user tables *)

\* a record of feishu_users.csv
UserRec(user_id, union_id, open_id, name, email, dept_id) ==
    [user_id |-> user_id, union_id |-> union_id, open_id |-> open_id, name |-> name,
     enterprise_email |-> email, dept_id |-> dept_id]

\* the department extract of the behaviours that vary the users
UserDeptExtract == <<DeptRec("A", DeptName("A"), "0", 0), DeptRec("B", DeptName("B"), "A", 1)>>

\* the first user of an extract: without union_id, or with one and in
\* department A, in department B or in a department the extract does not have
FirstUsers ==
    {UserRec("e1", "", "o1", "x", "m1", "A")}
    \cup {UserRec("e1", "u1", "o1", "x", "m1", d) : d \in {"A", "B", "Q"}}

\* the second user: with or without union_id
SecondUsers == {UserRec("e2", k, "o2", "z", "m2", "A") : k \in {"", "u2"}}

SrcUserFamily ==
    {<<>>}
    \cup {<<a>> : a \in FirstUsers}
    \cup {<<b>> : b \in SecondUsers}
    \cup {<<a, b>> : a \in FirstUsers, b \in SecondUsers}

\* the account RuoYi ships with
AdminRow ==
    [user_id |-> 1, user_name |-> "admin", nick_name |-> "admin", email |-> "",
     dept_id |-> DefaultRootId, feishu_union_id |-> "", feishu_open_id |-> "",
     status |-> "0", del_flag |-> "0"]

FreshDb == [users |-> <<AdminRow>>, roles |-> {<<1, 1>>}]

\* earlier user extracts, from which earlier runs filled the target
HistUsers == <<UserRec("e1", "u1", "o1", "x", "m1", "A"), UserRec("e3", "u3", "o3", "w", "m3", "B")>>
HistDrift == <<UserRec("e1", "u1", "", "old", "", "B"), UserRec("e3", "u3", "o3", "w", "m3", "B")>>

\* the database a failure-free real run on user extract h leaves, from a
\* fresh target
AfterUsers(h) ==
    sync_users(FreshDb, h, sync_departments(FreshDepts, UserDeptExtract, CleanEnv), CleanEnv).db

\* rows changed in RuoYi: a user removed (del_flag = '2'); a user disabled
\* (status = '1') by hand or by an earlier run whose extract did not have
\* the user; the administrator bound to a Feishu account
FlaggedUser(db, key, status, del_flag) ==
    [db EXCEPT !.users = [i \in DOMAIN @ |->
        IF @[i].feishu_union_id = key
        THEN [@[i] EXCEPT !.status = status, !.del_flag = del_flag]
        ELSE @[i]]]

BoundAdmin(db, key) ==
    [db EXCEPT !.users = [i \in DOMAIN @ |->
        IF @[i].user_name = "admin"
        THEN [@[i] EXCEPT !.feishu_union_id = key]
        ELSE @[i]]]

\* what was done by hand to the user table an earlier run left
HandEditedUsers(db, edit) ==
    CASE edit = "admin" -> BoundAdmin(db, "u9")
      [] edit = "deleted" -> FlaggedUser(db, "u3", "0", "2")
      [] edit = "disabled" -> FlaggedUser(db, "u1", "1", "0")
      [] OTHER -> db

InitUserDbs ==
    {FreshDb}
    \cup {HandEditedUsers(AfterUsers(v[1]), v[2]) :
            v \in {<<HistUsers, "none">>, <<HistDrift, "none">>, <<HistUsers, "admin">>,
                   <<HistUsers, "deleted">>, <<HistUsers, "disabled">>}}

----------------------------------------------------------------------------
(* fetch_feishu_data.py: the Feishu API and the functions that call it *)

\* a department and a user as the API serves them
SrcDept(id, parent) == [dept_id |-> id, name |-> DeptName(id), parent |-> parent]

SrcUser(user_id, union_id, department_ids, is_frozen) ==
    [user_id |-> user_id, union_id |-> union_id, open_id |-> "o" \o union_id,
     name |-> "x", enterprise_email |-> "m" \o union_id,
     department_ids |-> department_ids, is_frozen |-> is_frozen, is_resigned |-> FALSE]

\* the user after leaving the company: status.is_resigned is set
Resigned(user) == [user EXCEPT !.is_resigned = TRUE]

\* an organisation: its departments, its users, and member_count of
\* departments/0, the number of its users
Org(depts, users) == [depts |-> depts, users |-> users, total |-> Len(users)]

\* How the API answers one request: the first `net` attempts end in a
\* connection error or timeout, then come responses with the codes of
\* `codes`, then responses with code 0.
Response(net, codes) == [net |-> net, codes |-> codes]

GoodResponse == Response(0, <<>>)

\* the answer to request (kind, id): the one listed for it, or a good one
ResponseTo(rs, kind, id) ==
    IF \E r \in rs : r.req = <<kind, id>>
    THEN (CHOOSE r \in rs : r.req = <<kind, id>>).resp
    ELSE GoodResponse

\* What an attempt of request_with_retry (requests.get or requests.post with
\* timeout=30) ends in: a response, one of the two exceptions the function
\* catches, or another exception of requests.
AttemptOutcomes == {"response", "ConnectionError", "Timeout", "error"}

\* Variant of RetryLoop: the exception of an attempt is raised at once.
RetryLoop_NoRetry(outcomes, i, events) ==
    [events |-> Append(events, "request"),
     result |-> IF outcomes[i + 1] = "response" THEN "response" ELSE "raised",
     attempt |-> i + 1]

RECURSIVE RetryLoop(_, _, _)
\* The loop "for i in range(MAX_RETRIES)" of request_with_retry from
\* iteration i on; outcomes[k] is what the k-th attempt ends in, events lists
\* the requests made and the time.sleep(RETRY_DELAY) calls so far.  Returns
\* the events, how the call ends ("response": an attempt's response is
\* returned; "raised": an attempt's exception leaves the function; "none":
\* the loop ends and None is returned) and the attempt that ended it.
RetryLoop(outcomes, i, events) ==
    IF i >= MAX_RETRIES
    THEN [events |-> events, result |-> "none", attempt |-> 0]
    ELSE IF outcomes[i + 1] = "response"
    THEN [events |-> Append(events, "request"), result |-> "response", attempt |-> i + 1]
    ELSE IF outcomes[i + 1] \in {"ConnectionError", "Timeout"} /\ i < MAX_RETRIES - 1
    THEN RetryLoop(outcomes, i + 1, events \o <<"request", "sleep">>)
    ELSE [events |-> Append(events, "request"), result |-> "raised", attempt |-> i + 1]

\* request_with_retry on a request whose first resp.net attempts end in a
\* connection error: TRUE when an attempt returns a response, FALSE when
\* the error of the last attempt is raised
request_with_retry(resp) ==
    RetryLoop([k \in 1..MAX_RETRIES |->
                  IF k <= resp.net THEN "ConnectionError" ELSE "response"],
              0, <<>>).result = "response"

\* data["code"] of the n-th response
CodeAt(resp, n) == IF n <= Len(resp.codes) THEN resp.codes[n] ELSE 0

\* the loop "for retry in range(3)" of one page: TRUE when it ends with code
\* 0, FALSE when it raises (retries used up, another code, or no response)
PageFetched(resp, limitCodes) ==
    /\ request_with_retry(resp)
    /\ \E n \in 1..RateRetries :
         /\ CodeAt(resp, n) = 0
         /\ \A m \in 1..(n - 1) : CodeAt(resp, m) \in limitCodes

\* The responses with a code of limitCodes that the loop "for retry in
\* range(3)" of get_users_by_department receives: each of them passes
\* "retry_counter['count'] += 1"
LimitResponses(resp) ==
    IF ~request_with_retry(resp) THEN 0
    ELSE Cardinality({n \in 1..RateRetries :
            \A m \in 1..n : CodeAt(resp, m) \in {RateLimited, ServiceUnavailable}})

\* get_tenant_access_token: TRUE when the token is returned
get_tenant_access_token(resp) == request_with_retry(resp) /\ CodeAt(resp, 1) = 0

\* get_total_user_count: member_count of departments/0, or None
get_total_user_count(o, resp) ==
    IF request_with_retry(resp) /\ CodeAt(resp, 1) = 0 THEN o.total ELSE NoTotal

\* the records fetch_dept_children makes of the items of a page
ChildRecs(items, parent_id, level) ==
    [i \in DOMAIN items |-> DeptRec(items[i].dept_id, items[i].name, parent_id, level)]

\* fetch_dept_children: the children of parent_id with the level given, or
\* an exception
fetch_dept_children(o, parent_id, level, resp) ==
    IF PageFetched(resp, {RateLimited})
    THEN [ok |-> TRUE,
          children |-> ChildRecs(SelectIdx(o.depts,
                                    {j \in DOMAIN o.depts : o.depts[j].parent = parent_id}, 1),
                                 parent_id, level)]
    ELSE [ok |-> FALSE, children |-> <<>>]

\* get_users_by_department: the users that have department_id among their
\* departments (a user served without department_ids is a member of "0"),
\* or an exception
get_users_by_department(o, department_id, resp) ==
    IF PageFetched(resp, {RateLimited, ServiceUnavailable})
    THEN [ok |-> TRUE,
          users |-> SelectIdx(o.users,
                        {j \in DOMAIN o.users :
                            \/ \E k \in DOMAIN o.users[j].department_ids :
                                   o.users[j].department_ids[k] = department_id
                            \/ /\ o.users[j].department_ids = <<>>
                               /\ department_id = "0"}, 1)]
    ELSE [ok |-> FALSE, users |-> <<>>]

Reverse(s) == [i \in DOMAIN s |-> s[Len(s) + 1 - i]]

RECURSIVE LevelFetched(_, _, _, _)
\* one level of get_department_info: the children of the parents of
\* current_level from the k-th on, in the order the futures complete; a
\* future that raised adds nothing
LevelFetched(o, rs, current_level, k) ==
    IF k > Len(current_level) THEN <<>>
    ELSE fetch_dept_children(o, current_level[k][1], current_level[k][2],
                             ResponseTo(rs, "children", current_level[k][1])).children
         \o LevelFetched(o, rs, current_level, k + 1)

RECURSIVE BfsFetch(_, _, _, _, _)
RECURSIVE BfsNext(_, _, _, _, _)
\* the loop "while current_level": dept_list from the level current_level on;
\* rev: the futures of a level complete in the reverse of the order submitted
BfsFetch(o, rs, current_level, rev, fuel) ==
    IF current_level = <<>> \/ fuel = 0 THEN <<>>
    ELSE BfsNext(o, rs, LevelFetched(o, rs, IF rev THEN Reverse(current_level)
                                               ELSE current_level, 1), rev, fuel)

\* level_depts, followed by the levels below them
BfsNext(o, rs, level_depts, rev, fuel) ==
    level_depts
    \o BfsFetch(o, rs, [i \in DOMAIN level_depts |->
                           <<level_depts[i].dept_id, level_depts[i].level + 1>>],
                rev, fuel - 1)

\* get_department_info: dept_list
get_department_info(o, rs, rev) == BfsFetch(o, rs, <<<<"0", 0>>>>, rev, Len(o.depts) + 1)

\* dept_ids = ["0"] + list(dept_map.keys())
DeptIdsToFetch(dl) == <<"0">> \o [i \in DOMAIN dl |-> dl[i].dept_id]

RECURSIVE Flatten(_)
\* the users of the lists of all_dept_users, in order
Flatten(lists) == IF lists = <<>> THEN <<>> ELSE Head(lists) \o Flatten(Tail(lists))

\* the users of a list that have a user_id
WithUserId(flat) == SelectIdx(flat, {i \in DOMAIN flat : flat[i].user_id # ""}, 1)

\* Variant of DedupUsers: seen_ids is not consulted.
DedupUsers_Unseen(lists) == WithUserId(Flatten(lists))

RECURSIVE DedupFrom(_, _, _)
\* the second phase of get_all_users from the i-th fetched user on
DedupFrom(flat, i, seen_ids) ==
    IF i > Len(flat) THEN <<>>
    ELSE IF flat[i].user_id # "" /\ flat[i].user_id \notin seen_ids
         THEN <<flat[i]>> \o DedupFrom(flat, i + 1, seen_ids \cup {flat[i].user_id})
         ELSE DedupFrom(flat, i + 1, seen_ids)

\* all_users of get_all_users
DedupUsers(lists) == DedupFrom(Flatten(lists), 1, {})

\* Variant of CsvRows: dept_id is the last of department_ids.
CsvRows_LastDept(kept) ==
    [i \in DOMAIN kept |->
        UserRec(kept[i].user_id, kept[i].union_id, kept[i].open_id, kept[i].name,
                kept[i].enterprise_email,
                IF kept[i].department_ids = <<>> THEN ""
                ELSE kept[i].department_ids[Len(kept[i].department_ids)])]

\* the row export_to_csv writes for a user: dept_id is the first of
\* department_ids
CsvRows(kept) ==
    [i \in DOMAIN kept |->
        UserRec(kept[i].user_id, kept[i].union_id, kept[i].open_id, kept[i].name,
                kept[i].enterprise_email,
                IF kept[i].department_ids = <<>> THEN "" ELSE kept[i].department_ids[1])]

\* Variant of UsersCsv: only a frozen user gets no row.
UsersCsv_Resigned(users_list) ==
    CsvRows(SelectIdx(users_list, {j \in DOMAIN users_list : ~users_list[j].is_frozen}, 1))

\* the rows export_to_csv writes: none for a frozen or resigned user
UsersCsv(users_list) ==
    CsvRows(SelectIdx(users_list,
                      {j \in DOMAIN users_list :
                          ~(users_list[j].is_frozen \/ users_list[j].is_resigned)}, 1))

\* Variant of DataComplete: the count is not compared with the total.
DataComplete_NoTotal(dept_count, user_count, total) ==
    dept_count # 0 /\ user_count # 0

\* the checks at the end of __main__: FALSE when one of them raises
DataComplete(dept_count, user_count, total) ==
    /\ ~(dept_count = 0 \/ user_count = 0)
    /\ ~(total # NoTotal /\ user_count # total)

----------------------------------------------------------------------------
(* The processes *)

\* The environment as far as it shaped a run: the failed calls among those
\* made, whether the listing differs from the table, and the spacing of the
\* random ids when a dry run drew more than one.
EffEnv(env, calls, listingFailed, createOp) ==
    Env(env.dry,
        env.fail \cap DOMAIN calls,
        listingFailed,
        IF env.dry /\ Cardinality({i \in DOMAIN calls : calls[i].op = createOp}) >= 2
        THEN env.randStep ELSE 0)

NoDeptResult == DeptRunStart(<<>>, <<>>)

NoDeptRun == [ran |-> FALSE, dry |-> FALSE, env |-> CleanEnv, pre |-> <<>>, src |-> <<>>,
              res |-> NoDeptResult]

NoDb == [users |-> <<>>, roles |-> {}]

NoUserResult == UserRunStart(NoDb, <<>>)

NoUserRun == [ran |-> FALSE, dry |-> FALSE, env |-> CleanEnv, pre |-> NoDb, src |-> <<>>,
              drun |-> NoDeptRun, res |-> NoUserResult]

\* no sync_departments and no sync_users has run
NoRunYet ==
    /\ DRY_RUN = FALSE
    /\ dept_result = NoDeptResult
    /\ deptRun = NoDeptRun
    /\ prevDeptRun = NoDeptRun
    /\ userRun = NoUserRun
    /\ prevUserRun = NoUserRun

\* fetch_feishu_data.py has not started
FetchNotStarted ==
    /\ fetch_pc = "none"
    /\ returncode = 0
    /\ total_user_count = NoTotal
    /\ dept_list = <<>>
    /\ futures = EmptyDict
    /\ all_dept_users = <<>>
    /\ processed_count = 0
    /\ all_users = <<>>
    /\ total_fetched = 0
    /\ retry_counter = 0
    /\ in_worker = EmptyDict

\* no function has been applied on its own
NoCall == [fn |-> "", arg |-> "", ret |-> "", level |-> 0, crashed |-> FALSE]

NoFunctionCalled ==
    /\ level_cache = EmptyDict
    /\ last_call = NoCall

\* the processes find both files in output/ and are started without --yes,
\* so that none of them runs fetch_feishu_data.py
InitCommon ==
    /\ NoRunYet
    /\ pc = "main"
    /\ runs = 0
    /\ feishu_org = Org(<<>>, <<>>)
    /\ responses = {}
    /\ AUTO_YES = FALSE
    /\ csv_exists = [users |-> TRUE, depts |-> TRUE]
    /\ FetchNotStarted
    /\ NoFunctionCalled

\* department extracts and targets of every shape, no users
Init ==
    /\ sys_dept \in InitDeptTables
    /\ feishu_depts \in SrcDeptFamily
    /\ sys_user = <<>>
    /\ sys_user_role = {}
    /\ feishu_users = <<>>
    /\ InitCommon

\* step 1/3 of __main__: DRY_RUN is set from the command line, then
\* sync_departments runs; a RecursionError ends the process
SyncDepartments ==
    /\ pc = "main"
    /\ runs < MaxRuns
    /\ LET Ran(env, r) ==
               [ran |-> TRUE, dry |-> env.dry,
                env |-> EffEnv(env, r.calls, r.listed # sys_dept, "create_department"),
                pre |-> sys_dept, src |-> feishu_depts, res |-> r]
           Run(env) == Ran(env, sync_departments(sys_dept, feishu_depts, env))
       IN \E run \in {Run(env) : env \in PhaseEnvs} :
           /\ sys_dept' = run.res.db
           /\ DRY_RUN' = run.dry
           /\ dept_result' = run.res
           /\ prevDeptRun' = deptRun
           /\ deptRun' = run
           /\ pc' = IF run.res.crashed THEN "main" ELSE "users"
           /\ runs' = IF run.res.crashed THEN runs + 1 ELSE runs
    /\ UNCHANGED <<sys_user, sys_user_role, feishu_depts, feishu_users, userRun, prevUserRun>>
    /\ UNCHANGED fetchVars
    /\ UNCHANGED fnVars

\* step 2/3 of __main__: sync_users with the results of step 1, then the
\* process ends
SyncUsers ==
    /\ pc = "users"
    /\ LET Ran(env, db, r) ==
               [ran |-> TRUE, dry |-> env.dry,
                env |-> EffEnv(env, r.calls, r.listed # get_users(sys_user, CleanEnv),
                               "create_user"),
                pre |-> db, src |-> feishu_users, drun |-> deptRun, res |-> r]
           Run(env, db) == Ran(env, db, sync_users(db, feishu_users, dept_result, env))
       IN \E run \in {Run(env, [users |-> sys_user, roles |-> sys_user_role]) :
                          env \in {e \in UserPhaseEnvs : e.dry = DRY_RUN}} :
           /\ sys_user' = run.res.db.users
           /\ sys_user_role' = run.res.db.roles
           /\ prevUserRun' = userRun
           /\ userRun' = run
    /\ pc' = "main"
    /\ runs' = runs + 1
    /\ UNCHANGED <<sys_dept, feishu_depts, feishu_users, DRY_RUN, dept_result,
                   deptRun, prevDeptRun>>
    /\ UNCHANGED fetchVars
    /\ UNCHANGED fnVars

Next == SyncDepartments \/ SyncUsers

Spec == Init /\ [][Next]_vars

\* the user table whose rows drifted, as one of InitUserDbs
DriftDb == HandEditedUsers(AfterUsers(HistDrift), "none")

\* user extracts and user tables of every shape, one department extract; the
\* target was never synchronised (both tables as shipped) or holds the
\* departments of an earlier run, which for the drifted users may be those
\* of an older organisation
InitUsers ==
    /\ feishu_depts = UserDeptExtract
    /\ \E db \in InitUserDbs :
        /\ sys_user = db.users
        /\ sys_user_role = db.roles
        /\ sys_dept \in {After(UserDeptExtract)}
                        \cup (IF db = FreshDb THEN {FreshDepts} ELSE {})
                        \cup (IF db = DriftDb THEN {After(HistStale)} ELSE {})
    /\ feishu_users \in SrcUserFamily
    /\ InitCommon

SpecUsers == InitUsers /\ [][Next]_vars

----------------------------------------------------------------------------
(* The extraction: inputs *)

MaxBadRequests == 1       \* requests of a behaviour that the API answers badly

\* a department with a sub-department; w2 is a member of both, B first
OrgNested ==
    Org(<<SrcDept("A", "0"), SrcDept("B", "A")>>,
        <<SrcUser("w1", "u1", <<"A">>, FALSE), SrcUser("w2", "u2", <<"B", "A">>, FALSE)>>)

\* two departments side by side; w1 has resigned and w3 is frozen
OrgFlat ==
    Org(<<SrcDept("A", "0"), SrcDept("B", "0")>>,
        <<Resigned(SrcUser("w1", "u1", <<"A">>, FALSE)), SrcUser("w2", "u2", <<"B">>, FALSE),
          SrcUser("w3", "u3", <<"B">>, TRUE)>>)

\* the API serves a user without user_id
OrgNoId ==
    Org(<<SrcDept("A", "0")>>,
        <<SrcUser("w1", "u1", <<"A">>, FALSE), SrcUser("", "u2", <<"A">>, FALSE)>>)

\* a department without users, and a tenant without departments
OrgNoUsers == Org(<<SrcDept("A", "0")>>, <<>>)

OrgEmpty == Org(<<>>, <<>>)

\* members of the root: w1 is listed under "0" first and under A, w2 comes
\* without department_ids; w3 is listed first under a department the API
\* does not serve; w4 is in A only
OrgRoot ==
    Org(<<SrcDept("A", "0")>>,
        <<SrcUser("w1", "u1", <<"0", "A">>, FALSE), SrcUser("w2", "u2", <<>>, FALSE),
          SrcUser("w3", "u3", <<"Q", "A">>, FALSE), SrcUser("w4", "u4", <<"A">>, FALSE)>>)

Orgs == {OrgNested, OrgFlat, OrgNoId, OrgNoUsers, OrgEmpty, OrgRoot}

\* the requests a fetch of organisation o can make
Requests(o) ==
    {<<"token", "">>, <<"total", "0">>}
    \cup {<<k, d>> : k \in {"children", "users"},
                     d \in {"0"} \cup {o.depts[i].dept_id : i \in DOMAIN o.depts}}

\* bad answers: errors of the connection that end before or with the last
\* attempt, rate limits that end before or with the last retry, the service
\* unavailable once, and another error code
BadResponses ==
    {Response(MAX_RETRIES - 1, <<>>), Response(MAX_RETRIES, <<>>),
     Response(0, [i \in 1..(RateRetries - 1) |-> RateLimited]),
     Response(0, [i \in 1..RateRetries |-> RateLimited]),
     Response(0, <<ServiceUnavailable>>), Response(0, <<1>>)}

RECURSIVE ResponseSets(_, _)
\* the sets of at most n bad answers to different requests of o
ResponseSets(o, n) ==
    IF n = 0 THEN {{}}
    ELSE ResponseSets(o, n - 1)
         \cup {rs \cup {[req |-> q, resp |-> b]} :
                 rs \in ResponseSets(o, n - 1),
                 q \in Requests(o), b \in BadResponses}

\* the rate limit meets the user requests of two departments at a time:
\* each of the two is answered with the frequency-limit code once
RateLimitedTogether(o) ==
    {{[req |-> <<"users", d>>, resp |-> Response(0, <<RateLimited>>)] : d \in ds} :
        ds \in {x \in SUBSET ({"0"} \cup {o.depts[i].dept_id : i \in DOMAIN o.depts}) :
                    Cardinality(x) = MaxBadRequests + 1}}

\* at most one answer for each request
Functional(rs) == \A r1, r2 \in rs : r1.req = r2.req => r1 = r2

\* the target when the process starts: as shipped, or for OrgRoot and
\* OrgFlat as a synchronisation of an earlier state of the tenant left it
TargetOf(o) ==
    IF o \in {OrgRoot, OrgFlat}
    THEN [depts |-> After(UserDeptExtract), db |-> AfterUsers(HistUsers)]
    ELSE [depts |-> FreshDepts, db |-> FreshDb]

\* the orchestrating process is started with --yes while output/ holds the
\* files of an earlier extraction, or without it while output/ is empty or,
\* with an API that answers well, holds those files; the target is as
\* shipped, or as an earlier synchronisation left it; the API
\* answers at most MaxBadRequests requests badly, or limits the rate of
\* the user requests of several departments
InitFetch ==
    /\ feishu_org \in Orgs
    /\ responses \in {rs \in ResponseSets(feishu_org, MaxBadRequests) : Functional(rs)}
                        \cup RateLimitedTogether(feishu_org)
    /\ \E yes, have \in BOOLEAN :
        /\ yes => have
        /\ yes \/ ~have \/ responses = {}
        /\ AUTO_YES = yes
        /\ csv_exists = [users |-> have, depts |-> have]
        /\ feishu_depts = IF have THEN UserDeptExtract ELSE <<>>
        /\ feishu_users = IF have THEN HistUsers ELSE <<>>
    /\ \E target \in {TargetOf(feishu_org)} :
        /\ sys_dept = target.depts
        /\ sys_user = target.db.users
        /\ sys_user_role = target.db.roles
    /\ NoRunYet
    /\ pc = "start"
    /\ runs = MaxRuns - 1
    /\ FetchNotStarted
    /\ NoFunctionCalled

----------------------------------------------------------------------------
(* The extraction: the processes *)

\* step 0/3 of __main__ of sync_to_ruoyi_db.py: fetch_feishu_data.py is
\* started with --yes or when a file is missing
OrchestratorStart ==
    /\ pc = "start"
    /\ IF AUTO_YES \/ ~csv_exists.users \/ ~csv_exists.depts
       THEN pc' = "fetch" /\ fetch_pc' = "begin"
       ELSE pc' = "main" /\ UNCHANGED fetch_pc
    /\ UNCHANGED <<sys_dept, sys_user, sys_user_role, feishu_depts, feishu_users, DRY_RUN,
                   dept_result, deptRun, prevDeptRun, userRun, prevUserRun, runs>>
    /\ UNCHANGED <<feishu_org, responses, AUTO_YES, csv_exists, returncode,
                   total_user_count, dept_list, futures, all_dept_users, processed_count,
                   all_users, total_fetched, retry_counter, in_worker>>
    /\ UNCHANGED fnVars

\* __main__ of fetch_feishu_data.py up to the fan-out of get_all_users: the
\* token (without it: the except branch, which removes the files and exits
\* with 1), the total, get_department_info with its export, and the
\* submission of one future for "0" and for each department fetched
FetchDepartments ==
    /\ fetch_pc = "begin"
    /\ IF ~get_tenant_access_token(ResponseTo(responses, "token", ""))
       THEN /\ fetch_pc' = "exited"
            /\ returncode' = 1
            /\ csv_exists' = [users |-> FALSE, depts |-> FALSE]
            /\ feishu_depts' = <<>>
            /\ feishu_users' = <<>>
            /\ UNCHANGED <<total_user_count, dept_list, futures, in_worker>>
       ELSE \E rev \in BOOLEAN :
            \E dl \in {get_department_info(feishu_org, responses, rev)} :
               /\ total_user_count' = get_total_user_count(feishu_org,
                                          ResponseTo(responses, "total", "0"))
               /\ dept_list' = dl
               /\ feishu_depts' = dl
               /\ csv_exists' = [csv_exists EXCEPT !.depts = TRUE]
               /\ futures' = [d \in {DeptIdsToFetch(dl)[i] : i \in DOMAIN DeptIdsToFetch(dl)}
                                |-> "running"]
               /\ in_worker' = [d \in {DeptIdsToFetch(dl)[i] : i \in DOMAIN DeptIdsToFetch(dl)}
                                  |-> [counted |-> 0, loaded |-> <<>>]]
               /\ fetch_pc' = "fanout"
               /\ UNCHANGED <<feishu_users, returncode>>
    /\ UNCHANGED <<sys_dept, sys_user, sys_user_role, DRY_RUN, pc,
                   dept_result, deptRun, prevDeptRun, userRun, prevUserRun, runs>>
    /\ UNCHANGED <<feishu_org, responses, AUTO_YES, all_dept_users, processed_count,
                   all_users, total_fetched, retry_counter>>
    /\ UNCHANGED fnVars

\* a worker of the pool receives a response with a rate-limit code: the
\* statement "retry_counter['count'] += 1" reads the count; no lock is held
WorkerLoad ==
    /\ fetch_pc = "fanout"
    /\ \E d \in DOMAIN futures :
        /\ futures[d] = "running"
        /\ in_worker[d].loaded = <<>>
        /\ in_worker[d].counted < LimitResponses(ResponseTo(responses, "users", d))
        /\ in_worker' = [in_worker EXCEPT ![d].loaded = <<retry_counter>>]
    /\ UNCHANGED syncVars
    /\ UNCHANGED <<feishu_org, responses, AUTO_YES, csv_exists, fetch_pc, returncode,
                   total_user_count, dept_list, futures, all_dept_users, processed_count,
                   all_users, total_fetched, retry_counter>>
    /\ UNCHANGED fnVars

\* the statement "retry_counter['count'] += 1" of a worker stores the count
\* it read, plus one
WorkerStore ==
    /\ fetch_pc = "fanout"
    /\ \E d \in DOMAIN futures :
        /\ futures[d] = "running"
        /\ in_worker[d].loaded # <<>>
        /\ retry_counter' = in_worker[d].loaded[1] + 1
        /\ in_worker' = [in_worker EXCEPT ![d] = [counted |-> @.counted + 1, loaded |-> <<>>]]
    /\ UNCHANGED syncVars
    /\ UNCHANGED <<feishu_org, responses, AUTO_YES, csv_exists, fetch_pc, returncode,
                   total_user_count, dept_list, futures, all_dept_users, processed_count,
                   all_users, total_fetched>>
    /\ UNCHANGED fnVars

\* a worker of the pool returns from get_users_by_department or raises,
\* having counted its rate-limit responses: its future is done
WorkerFinish ==
    /\ fetch_pc = "fanout"
    /\ \E d \in DOMAIN futures :
        /\ futures[d] = "running"
        /\ in_worker[d].loaded = <<>>
        /\ in_worker[d].counted = LimitResponses(ResponseTo(responses, "users", d))
        /\ futures' = [futures EXCEPT ![d] = "done"]
    /\ UNCHANGED syncVars
    /\ UNCHANGED <<feishu_org, responses, AUTO_YES, csv_exists, fetch_pc, returncode,
                   total_user_count, dept_list, all_dept_users, processed_count,
                   all_users, total_fetched, retry_counter, in_worker>>
    /\ UNCHANGED fnVars

\* Variant of Collected: a future that raised empties the collection.
Collected_Abort(lists, result) ==
    IF result.ok THEN Append(lists, result.users) ELSE <<>>

\* all_dept_users after the body of "for future in as_completed" for one
\* future: the list of a future that returned is appended
Collected(lists, result) ==
    IF result.ok THEN Append(lists, result.users) ELSE lists

\* the main thread of get_all_users takes a future that is done
Collect ==
    /\ fetch_pc = "fanout"
    /\ \E d \in DOMAIN futures :
        /\ futures[d] = "done"
        /\ all_dept_users' = Collected(all_dept_users,
                                get_users_by_department(feishu_org, d,
                                    ResponseTo(responses, "users", d)))
        /\ futures' = [futures EXCEPT ![d] = "collected"]
    /\ processed_count' = processed_count + 1
    /\ UNCHANGED syncVars
    /\ UNCHANGED <<feishu_org, responses, AUTO_YES, csv_exists, fetch_pc, returncode,
                   total_user_count, dept_list, all_users, total_fetched, retry_counter,
                   in_worker>>
    /\ UNCHANGED fnVars

\* the second phase of get_all_users, after the pool has shut down
Deduplicate ==
    /\ fetch_pc = "fanout"
    /\ \A d \in DOMAIN futures : futures[d] = "collected"
    /\ all_users' = DedupUsers(all_dept_users)
    /\ total_fetched' = Len(Flatten(all_dept_users))
    /\ fetch_pc' = "export"
    /\ UNCHANGED syncVars
    /\ UNCHANGED <<feishu_org, responses, AUTO_YES, csv_exists, returncode,
                   total_user_count, dept_list, futures, all_dept_users, processed_count,
                   retry_counter, in_worker>>
    /\ UNCHANGED fnVars

\* the rest of __main__ of fetch_feishu_data.py: export_to_csv and the
\* checks; when one raises, the except branch removes both files and exits
\* with 1
ExportAndValidate ==
    /\ fetch_pc = "export"
    /\ fetch_pc' = "exited"
    /\ IF DataComplete(Len(dept_list), Len(all_users), total_user_count)
       THEN /\ feishu_users' = UsersCsv(all_users)
            /\ csv_exists' = [csv_exists EXCEPT !.users = TRUE]
            /\ returncode' = 0
            /\ UNCHANGED feishu_depts
       ELSE /\ feishu_users' = <<>>
            /\ feishu_depts' = <<>>
            /\ csv_exists' = [users |-> FALSE, depts |-> FALSE]
            /\ returncode' = 1
    /\ UNCHANGED <<sys_dept, sys_user, sys_user_role, DRY_RUN, pc,
                   dept_result, deptRun, prevDeptRun, userRun, prevUserRun, runs>>
    /\ UNCHANGED <<feishu_org, responses, AUTO_YES, total_user_count, dept_list, futures,
                   all_dept_users, processed_count, all_users, total_fetched, retry_counter,
                   in_worker>>
    /\ UNCHANGED fnVars

\* step 0/3 after subprocess.run: sys.exit(1) unless the return code is 0
OrchestratorResume ==
    /\ pc = "fetch"
    /\ fetch_pc = "exited"
    /\ pc' = IF returncode # 0 THEN "exit" ELSE "main"
    /\ UNCHANGED <<sys_dept, sys_user, sys_user_role, feishu_depts, feishu_users, DRY_RUN,
                   dept_result, deptRun, prevDeptRun, userRun, prevUserRun, runs>>
    /\ UNCHANGED fetchVars
    /\ UNCHANGED fnVars

NextFetch ==
    \/ OrchestratorStart
    \/ FetchDepartments
    \/ WorkerLoad
    \/ WorkerStore
    \/ WorkerFinish
    \/ Collect
    \/ Deduplicate
    \/ ExportAndValidate
    \/ OrchestratorResume
    \/ SyncDepartments
    \/ SyncUsers

SpecFetch == InitFetch /\ [][NextFetch]_vars

----------------------------------------------------------------------------
(* Vocabulary of the properties *)

Range(seq) == {seq[i] : i \in DOMAIN seq}

SrcIds(src) == {src[i].dept_id : i \in DOMAIN src}

AllOk(calls) == \A i \in DOMAIN calls : calls[i].ok

\* the positions of the calls of an operation on an entity
CallsOn(calls, ops, key) ==
    {i \in DOMAIN calls : calls[i].op \in ops /\ calls[i].key = key}

CallsTo(calls, op, id) ==
    {i \in DOMAIN calls : calls[i].op = op /\ calls[i].id = id}

HasOp(calls, op) == \E i \in DOMAIN calls : calls[i].op = op

\* the listing of the run returned the table
DeptListed(run) == run.res.listed = run.pre

\* a real run of sync_departments that returned, with its listing and
\* every write call successful
CleanRealDept(run) ==
    /\ run.ran
    /\ ~run.dry
    /\ ~run.res.crashed
    /\ DeptListed(run)
    /\ AllOk(run.res.calls)

\* the row of a table with a dept_id
DeptRow(table, id) == table[CHOOSE i \in DOMAIN table : table[i].dept_id = id]

----------------------------------------------------------------------------
(* C1 *)

C1_Pre ==
    /\ CleanRealDept(prevDeptRun)
    /\ deptRun.ran
    /\ deptRun.src = prevDeptRun.src
    /\ deptRun.pre = prevDeptRun.res.db
    /\ DeptListed(deptRun)

\* C1: after a real run of sync_departments whose listing and write calls
\* all succeeded, the next run on the same extract, reading the table that
\* run left, makes no create_department, update_department or
\* disable_department call and reports created = updated = disabled = 0.
C1_DeptIdempotent ==
    C1_Pre =>
        /\ deptRun.res.calls = <<>>
        /\ deptRun.res.dept_created_count = 0
        /\ deptRun.res.dept_updated_count = 0
        /\ deptRun.res.dept_disabled_count = 0

\* a second run after a first run that created, updated and disabled
C1_Witness ==
    /\ C1_Pre
    /\ HasOp(prevDeptRun.res.calls, "create_department")
    /\ HasOp(prevDeptRun.res.calls, "update_department")
    /\ HasOp(prevDeptRun.res.calls, "disable_department")
    /\ deptRun.res.calls = <<>>

----------------------------------------------------------------------------
(* C3 *)

\* source departments c whose parent is a source department
ChildParentPairs(src) ==
    {<<src[i].dept_id, src[i].parent_dept_id>> :
        i \in {j \in DOMAIN src : src[j].parent_dept_id \in SrcIds(src)}}

\* the parent of pair cp took its matched or create branch before every
\* create or update call for the child
ParentFirst(res, cp) ==
    \A j \in CallsOn(res.calls, {"create_department", "update_department"}, cp[1]) :
        \E k \in DOMAIN res.visited :
            res.visited[k].key = cp[2] /\ res.visited[k].at < j

\* every create or update call for the child carries the parent's target id
CarriesParentId(res, cp) ==
    \A j \in CallsOn(res.calls, {"create_department", "update_department"}, cp[1]) :
        /\ cp[2] \in DOMAIN res.dept_id_map
        /\ res.calls[j].parent_id = res.dept_id_map[cp[2]]

ParentKnownBefore(res, cp, j) ==
    \E k \in DOMAIN res.visited :
        /\ res.visited[k].key = cp[2]
        /\ res.visited[k].at < j
        /\ \/ res.visited[k].branch = "match"
           \/ res.calls[res.visited[k].at + 1].ok

----------------------------------------------------------------------------
(* C4 *)

\* C4: after a run of sync_departments without failure, every source
\* department is a key of dept_id_map, mapped to the id of the target row
\* that carries its source id.
C4_MappingCoverage ==
    CleanRealDept(deptRun) =>
        \A d \in SrcIds(deptRun.src) :
            /\ d \in DOMAIN deptRun.res.dept_id_map
            /\ \E i \in DOMAIN deptRun.res.db :
                /\ deptRun.res.db[i].dept_id = deptRun.res.dept_id_map[d]
                /\ deptRun.res.db[i].feishu_dept_id = d

----------------------------------------------------------------------------
(* C5 *)

\* the ancestors a row under parent id p must have in table
ExpectedAncestors(table, p) ==
    IF p = DefaultRootId THEN <<0, DefaultRootId>>
    ELSE Append(DeptRow(table, p).ancestors, p)

\* C5: after a failure-free real run, the row of every source department
\* that was matched or created has the ancestors of its parent row followed
\* by the parent's id, or "0,100" under the default top-level department.
C5_AncestorInvariant ==
    CleanRealDept(deptRun) =>
        \A k \in DOMAIN deptRun.res.visited :
            LET v == deptRun.res.visited[k]
                row == DeptRow(deptRun.res.db, deptRun.res.dept_id_map[v.key])
            IN row.ancestors = ExpectedAncestors(deptRun.res.db, v.parent)

----------------------------------------------------------------------------
(* C6 *)

\* C6: from a target without synchronised departments, for source
\* departments a under the root sentinel and b under a, every create call
\* for a carries parent_id 100 and ancestors "0,100", and every create call
\* for b made after a's creation succeeded carries the id returned for a
\* and a's ancestors followed by that id.
C6_AncestorsAtCreation ==
    (deptRun.ran /\ deptRun.pre = FreshDepts) =>
        \A a, b \in DOMAIN deptRun.src :
            (deptRun.src[a].parent_dept_id = "0"
             /\ deptRun.src[b].parent_dept_id = deptRun.src[a].dept_id) =>
                LET calls == deptRun.res.calls
                    ca == CallsOn(calls, {"create_department"}, deptRun.src[a].dept_id)
                    cb == CallsOn(calls, {"create_department"}, deptRun.src[b].dept_id)
                IN /\ \A i \in ca : /\ calls[i].parent_id = DefaultRootId
                                    /\ calls[i].ancestors = <<0, DefaultRootId>>
                   /\ \A i \in ca : \A j \in cb :
                        (calls[i].ok /\ i < j) =>
                            /\ calls[j].parent_id = calls[i].id
                            /\ calls[j].ancestors = Append(calls[i].ancestors, calls[i].id)

\* the scenario of the specification: A under "0", B under A, both created
C6_Witness ==
    /\ deptRun.ran
    /\ ~deptRun.dry
    /\ deptRun.pre = FreshDepts
    /\ \E a, b \in DOMAIN deptRun.src :
        /\ deptRun.src[a].parent_dept_id = "0"
        /\ deptRun.src[b].parent_dept_id = deptRun.src[a].dept_id
        /\ \E i, j \in DOMAIN deptRun.res.calls :
            /\ i < j
            /\ deptRun.res.calls[i] =
                  DeptCall("create_department", deptRun.src[a].dept_id, 101,
                           [dept_name |-> deptRun.src[a].dept_name, parent_id |-> 100,
                            ancestors |-> <<0, 100>>, level |-> deptRun.src[a].level],
                           <<>>, TRUE)
            /\ deptRun.res.calls[j].op = "create_department"
            /\ deptRun.res.calls[j].key = deptRun.src[b].dept_id
            /\ deptRun.res.calls[j].ancestors = <<0, 100, 101>>

----------------------------------------------------------------------------
(* C7 *)

\* the number of disable_department calls of the run for target id
DisableCalls(run, id) == Cardinality(CallsTo(run.res.calls, "disable_department", id))

\* C7 as stated: a target department gets a disable_department call if and
\* only if its feishu_dept_id is non-empty and not a department id of the
\* extract and the row is not already disabled; at most one call per row.
\* Stated for the runs that listed the table and reached the disable pass.
C7_Original ==
    (deptRun.ran /\ DeptListed(deptRun) /\ ~deptRun.res.crashed) =>
        \A i \in DOMAIN deptRun.pre :
            LET row == deptRun.pre[i]
            IN /\ DisableCalls(deptRun, row.dept_id) <= 1
               /\ DisableCalls(deptRun, row.dept_id) = 1
                    <=> /\ row.feishu_dept_id # ""
                        /\ row.feishu_dept_id \notin SrcIds(deptRun.src)
                        /\ row.status # "1"

\* the rows the disable pass must address
StaleActive(row, src) ==
    /\ row.feishu_dept_id # ""
    /\ row.feishu_dept_id \notin SrcIds(src)
    /\ row.status = "0"
    /\ row.del_flag = "0"

\* C7: disable_department is called exactly once for every department that
\* get_departments returned with a non-empty feishu_dept_id that is no
\* department id of the extract, status '0' and del_flag '0', when the run
\* reaches the disable pass, and is called for no other department.
C7_StaleDeptDisable ==
    deptRun.ran =>
        /\ \A i \in DOMAIN deptRun.res.listed :
            LET row == deptRun.res.listed[i]
            IN DisableCalls(deptRun, row.dept_id) =
                   IF StaleActive(row, deptRun.src) /\ ~deptRun.res.crashed THEN 1 ELSE 0
        /\ \A j \in DOMAIN deptRun.res.calls :
            deptRun.res.calls[j].op = "disable_department" =>
                \E i \in DOMAIN deptRun.res.listed :
                    deptRun.res.listed[i].dept_id = deptRun.res.calls[j].id

\* a run that disabled one stale row and left alone a deleted stale row, an
\* already disabled one or one whose department is in the extract
C7_Witness ==
    /\ deptRun.ran
    /\ ~deptRun.res.crashed
    /\ \E i, j, k \in DOMAIN deptRun.res.listed :
        /\ StaleActive(deptRun.res.listed[i], deptRun.src)
        /\ DisableCalls(deptRun, deptRun.res.listed[i].dept_id) = 1
        /\ deptRun.res.listed[j].feishu_dept_id # ""
        /\ deptRun.res.listed[j].feishu_dept_id \notin SrcIds(deptRun.src)
        /\ deptRun.res.listed[j].del_flag # "0"
        /\ DisableCalls(deptRun, deptRun.res.listed[j].dept_id) = 0
        /\ deptRun.res.listed[k].feishu_dept_id \in SrcIds(deptRun.src)
        /\ DisableCalls(deptRun, deptRun.res.listed[k].dept_id) = 0

----------------------------------------------------------------------------
(* C10 *)

\* the extract record of a department
SrcRec(src, id) == src[CHOOSE i \in DOMAIN src : src[i].dept_id = id]

\* the row that the run matched department v.key to
MatchedRow(run, v) == RuoyiDeptMap(run.res.listed)[v.key]

\* name, level or parent target id differ, or the target ancestors is empty
Drifted(run, v) ==
    LET row == MatchedRow(run, v)
        dept == SrcRec(run.src, v.key)
    IN \/ row.dept_name # dept.dept_name
       \/ row.level # dept.level
       \/ row.parent_id # v.parent
       \/ row.ancestors = <<>>

MatchVisits(run) == {k \in DOMAIN run.res.visited : run.res.visited[k].branch = "match"}

\* C10: a source department that takes the matched branch gets exactly one
\* update_department call, addressed to the matched row and carrying the
\* source name and level, the resolved parent id, a non-empty ancestors and
\* a non-empty list of changed fields, when name, level or parent id differ
\* or the target ancestors is empty, and gets none otherwise;
\* dept_updated_count is the number of the departments that got one.
C10_DeptUpdateDecision ==
    deptRun.ran =>
        /\ \A k \in MatchVisits(deptRun) :
            LET v == deptRun.res.visited[k]
                ups == CallsOn(deptRun.res.calls, {"update_department"}, v.key)
            IN IF Drifted(deptRun, v)
               THEN /\ Cardinality(ups) = 1
                    /\ \A j \in ups :
                        LET c == deptRun.res.calls[j]
                        IN /\ c.id = MatchedRow(deptRun, v).dept_id
                           /\ c.dept_name = SrcRec(deptRun.src, v.key).dept_name
                           /\ c.level = SrcRec(deptRun.src, v.key).level
                           /\ c.parent_id = v.parent
                           /\ c.ancestors # <<>>
                           /\ c.info # <<>>
               ELSE ups = {}
        /\ deptRun.res.dept_updated_count =
              Cardinality({k \in MatchVisits(deptRun) : Drifted(deptRun, deptRun.res.visited[k])})

\* one matched department updated and another matched one left alone
C10_Witness ==
    /\ deptRun.ran
    /\ \E k \in MatchVisits(deptRun) : Drifted(deptRun, deptRun.res.visited[k])
    /\ \E k \in MatchVisits(deptRun) : ~Drifted(deptRun, deptRun.res.visited[k])
    /\ deptRun.res.dept_updated_count = 1

----------------------------------------------------------------------------
(* Vocabulary of the user properties *)

\* the listing of the run returned the rows with del_flag = '0'
UserListed(run) == run.res.listed = get_users(run.pre.users, CleanEnv)

\* a real run of sync_users with its listing and every write call successful
CleanRealUser(run) ==
    /\ run.ran
    /\ ~run.dry
    /\ UserListed(run)
    /\ AllOk(run.res.calls)

\* the non-empty union_ids of an extract
SrcKeys(users) == {users[i].union_id : i \in DOMAIN users} \ {""}

----------------------------------------------------------------------------
(* C2 *)

C2_Pre ==
    /\ CleanRealDept(prevUserRun.drun)
    /\ CleanRealUser(prevUserRun)
    /\ userRun.ran
    /\ userRun.src = prevUserRun.src
    /\ userRun.drun.src = prevUserRun.drun.src
    /\ userRun.pre = prevUserRun.res.db
    /\ userRun.drun.pre = prevUserRun.drun.res.db
    /\ DeptListed(userRun.drun)
    /\ UserListed(userRun)

\* C2: after a process whose two phases ran for real with every listing and
\* write call successful, sync_users of the next process, on the same
\* extracts and the tables that process left, makes no create_user,
\* update_user or disable_user call.
C2_UserIdempotent ==
    C2_Pre => userRun.res.calls = <<>>

----------------------------------------------------------------------------
(* C8 *)

UserDisableCalls(run, id) == Cardinality(CallsTo(run.res.calls, "disable_user", id))

\* a listed user the disable pass must address
StaleUser(row, users) ==
    /\ row.feishu_union_id # ""
    /\ row.feishu_union_id \notin SrcKeys(users)
    /\ row.user_name # "admin"

\* C8: in a run of sync_users, every user returned by get_users whose
\* feishu_union_id is non-empty and no union_id of the extract and whose
\* user_name is not 'admin' gets exactly one disable_user call and no
\* create_user or update_user call; a user named 'admin', or without
\* feishu_union_id, or whose key is in the extract, gets no disable_user call.
C8_StaleUserDisable ==
    userRun.ran =>
        /\ \A i \in DOMAIN userRun.res.listed :
            LET row == userRun.res.listed[i]
            IN IF StaleUser(row, userRun.src)
               THEN /\ UserDisableCalls(userRun, row.user_id) = 1
                    /\ \A j \in DOMAIN userRun.res.calls :
                        userRun.res.calls[j].op \in {"create_user", "update_user"} =>
                            /\ userRun.res.calls[j].key # row.feishu_union_id
                            /\ userRun.res.calls[j].id # row.user_id
               ELSE UserDisableCalls(userRun, row.user_id) = 0
        /\ \A j \in DOMAIN userRun.res.calls :
            userRun.res.calls[j].op = "disable_user" =>
                \E i \in DOMAIN userRun.res.listed :
                    userRun.res.listed[i].user_id = userRun.res.calls[j].id

\* a run that disabled a stale user, left alone the administrator bound to
\* a key that is not in the extract, and left alone a user of the extract
C8_Witness ==
    /\ userRun.ran
    /\ \E i, j, k \in DOMAIN userRun.res.listed :
        /\ StaleUser(userRun.res.listed[i], userRun.src)
        /\ UserDisableCalls(userRun, userRun.res.listed[i].user_id) = 1
        /\ userRun.res.listed[j].user_name = "admin"
        /\ userRun.res.listed[j].feishu_union_id # ""
        /\ userRun.res.listed[j].feishu_union_id \notin SrcKeys(userRun.src)
        /\ userRun.res.listed[k].feishu_union_id \in SrcKeys(userRun.src)
        /\ Len(userRun.res.calls) = 1

----------------------------------------------------------------------------
(* C9 *)

\* the extract without the users that have no union_id
Keyed(users) == SelectIdx(users, {i \in DOMAIN users : users[i].union_id # ""}, 1)

\* the users of the extract that have no union_id
Keyless(users) == SelectIdx(users, {i \in DOMAIN users : users[i].union_id = ""}, 1)

\* the run of userRun repeated on the extract without the keyless users
WithoutKeyless(run) == sync_users(run.pre, Keyed(run.src), run.drun.res, run.env)

\* the calls and counts of the run are those of the run without the
\* keyless users, and each keyless user got one warning
SkippedUsersLeaveNoTrace(run) ==
    LET r0 == WithoutKeyless(run)
    IN /\ run.res.calls = r0.calls
       /\ run.res.db = r0.db
       /\ run.res.new_count = r0.new_count
       /\ run.res.update_count = r0.update_count
       /\ run.res.disable_count = r0.disable_count
       /\ run.res.new_users = r0.new_users
       /\ run.res.updated_users = r0.updated_users
       /\ run.res.disabled_users = r0.disabled_users
       /\ \A i \in DOMAIN run.src :
            run.src[i].union_id = "" =>
                \A j \in DOMAIN run.res.calls :
                    run.res.calls[j].op \in {"create_user", "update_user"} =>
                        run.res.calls[j].user_name # run.src[i].user_id

\* the counters sync_users keeps and returns
UserCounters == {"new_count", "update_count", "disable_count"}

\* C9 as stated: the users without union_id cause no call and are not
\* counted as created, updated or disabled, and a counter of the run rises
\* by one for each of them.
C9_Original ==
    userRun.ran =>
        /\ SkippedUsersLeaveNoTrace(userRun)
        /\ \E c \in UserCounters :
            userRun.res[c] = WithoutKeyless(userRun)[c] + Len(Keyless(userRun.src))

\* C9: the users without union_id cause no create_user, update_user or
\* disable_user call and are not counted as created, updated or disabled:
\* the calls, the counts and the lists of the run are those of the same run
\* on the extract without them; each is skipped with one warning, and no
\* counter of the run changes for them.
C9_SkipPolicy ==
    userRun.ran =>
        /\ SkippedUsersLeaveNoTrace(userRun)
        /\ userRun.res.skipped =
              [i \in DOMAIN Keyless(userRun.src) |-> Keyless(userRun.src)[i].user_id]
        /\ \A c \in UserCounters : userRun.res[c] = WithoutKeyless(userRun)[c]

\* a run with a keyless user and a keyed user that was created or updated
C9_Witness ==
    /\ userRun.ran
    /\ Keyless(userRun.src) # <<>>
    /\ Len(userRun.res.skipped) = Len(Keyless(userRun.src))
    /\ \/ HasOp(userRun.res.calls, "create_user")
       \/ HasOp(userRun.res.calls, "update_user")

----------------------------------------------------------------------------
(* C11 *)

\* the positions of the extract whose user is matched to a listed row
MatchedUsers(run) ==
    {i \in DOMAIN run.src : run.src[i].union_id \in DOMAIN RuoyiUserMap(run.res.listed)}

\* the row a matched user of the extract is matched to
MatchedUserRow(run, i) == RuoyiUserMap(run.res.listed)[run.src[i].union_id]

\* the target department id of a user of the extract
MappedDeptId(run, i) ==
    DictGet(run.drun.res.dept_id_map, run.src[i].dept_id, DefaultRootId)

\* the fields of a matched user that differ between extract and row
DriftedFields(run, i) ==
    (IF MatchedUserRow(run, i).nick_name # run.src[i].name THEN {"nick_name"} ELSE {})
    \cup (IF MatchedUserRow(run, i).email # run.src[i].enterprise_email THEN {"email"} ELSE {})
    \cup (IF MatchedUserRow(run, i).dept_id # MappedDeptId(run, i) THEN {"dept_id"} ELSE {})
    \cup (IF MatchedUserRow(run, i).feishu_open_id # run.src[i].open_id
          THEN {"feishu_open_id"} ELSE {})

UpdateUserCalls(run, i) == CallsOn(run.res.calls, {"update_user"}, run.src[i].union_id)

\* C11: a source user matched to a target user by union_id gets exactly one
\* update_user call, addressed to the matched row and carrying the source
\* name, email, mapped department id and open_id and the list of exactly
\* the fields that differ, when one of the four differs; it gets no
\* update_user call and is not in the updated users when none differs; the
\* update count is the number of update_user calls that succeeded.
C11_UserUpdateDecision ==
    userRun.ran =>
        /\ \A i \in MatchedUsers(userRun) :
            IF DriftedFields(userRun, i) # {}
            THEN /\ Cardinality(UpdateUserCalls(userRun, i)) = 1
                 /\ \A j \in UpdateUserCalls(userRun, i) :
                      LET c == userRun.res.calls[j]
                      IN /\ c.id = MatchedUserRow(userRun, i).user_id
                         /\ c.user_name = userRun.src[i].user_id
                         /\ c.nick_name = userRun.src[i].name
                         /\ c.email = userRun.src[i].enterprise_email
                         /\ c.dept_id = MappedDeptId(userRun, i)
                         /\ c.feishu_open_id = userRun.src[i].open_id
                         /\ {c.info[k].field : k \in DOMAIN c.info} = DriftedFields(userRun, i)
            ELSE /\ UpdateUserCalls(userRun, i) = {}
                 /\ userRun.src[i].user_id \notin Range(userRun.res.updated_users)
        /\ userRun.res.update_count =
              Cardinality({j \in DOMAIN userRun.res.calls :
                              userRun.res.calls[j].op = "update_user" /\ userRun.res.calls[j].ok})

\* a user updated on two or more fields by one run and, matched again and
\* without drift, left alone by the next
C11_Witness ==
    /\ prevUserRun.ran
    /\ userRun.ran
    /\ \E i \in MatchedUsers(prevUserRun) :
        /\ Cardinality(DriftedFields(prevUserRun, i)) >= 2
        /\ Cardinality(UpdateUserCalls(prevUserRun, i)) = 1
        /\ prevUserRun.res.update_count = 1
        /\ i \in MatchedUsers(userRun)
        /\ DriftedFields(userRun, i) = {}
        /\ UpdateUserCalls(userRun, i) = {}
        /\ userRun.res.update_count = 0

----------------------------------------------------------------------------
(* C12: dry-run fidelity *)

\* what a run decided: the entities it flagged, in order, each with the
\* operation, the existing row it is about (none for a create) and the
\* changed-field list with the ids it names
Decisions(calls) ==
    [i \in DOMAIN calls |->
        [op |-> calls[i].op, key |-> calls[i].key,
         id |-> IF calls[i].op \in {"create_department", "create_user"} THEN 0
                ELSE calls[i].id,
         info |-> calls[i].info]]

\* the dry runs whose listing succeeds
DryEnvs == {e \in PhaseEnvs : e.dry /\ ~e.listFails}

\* the process of the last two phases was a failure-free real run
CleanRealProcess ==
    /\ pc = "main"
    /\ CleanRealDept(deptRun)
    /\ CleanRealUser(userRun)
    /\ userRun.drun = deptRun

\* the department phase of a dry run from the state and extract of run
DryDeptRun(run, e) == sync_departments(run.pre, run.src, e)

\* C12: a dry run and a failure-free real run from the same target state and
\* the same extract decide the same: the same departments and users flagged
\* for create, update and disable, with the same changed-field list for each
\* (the parent and department ids named in the lists included)
C12_DryRunFidelity ==
    \A e \in DryEnvs :
        /\ CleanRealDept(deptRun)
              => Decisions(DryDeptRun(deptRun, e).calls) = Decisions(deptRun.res.calls)
        /\ CleanRealProcess
              => Decisions(sync_users(userRun.pre, userRun.src,
                                      DryDeptRun(deptRun, e), e).calls)
                   = Decisions(userRun.res.calls)

----------------------------------------------------------------------------
(* C13: a dry run writes nothing *)

\* C13: while DRY_RUN is set no step changes a row of the target: neither
\* sys_dept nor sys_user nor sys_user_role, whatever the phase decides to
\* create, update or disable
C13_DryRunWritesNothing ==
    [][DRY_RUN' => UNCHANGED <<sys_dept, sys_user, sys_user_role>>]_vars

\* a dry user phase has decided a create, an update and a disable
C13_Witness ==
    /\ userRun.ran
    /\ userRun.dry
    /\ DRY_RUN
    /\ HasOp(userRun.res.calls, "create_user")
    /\ HasOp(userRun.res.calls, "update_user")
    /\ HasOp(userRun.res.calls, "disable_user")
    /\ sys_user = userRun.pre.users

----------------------------------------------------------------------------
(* C14: no duplicates across runs *)

\* the non-empty correlation values of the rows of a table
DeptKeys(table) == {table[i].feishu_dept_id : i \in DOMAIN table} \ {""}

UserKeys(table) == {table[i].feishu_union_id : i \in DOMAIN table} \ {""}

\* no two rows carry the same non-empty correlation value
UniqueDeptKeys(table) ==
    \A i, j \in DOMAIN table :
        i # j /\ table[i].feishu_dept_id # "" => table[i].feishu_dept_id # table[j].feishu_dept_id

UniqueUserKeys(table) ==
    \A i, j \in DOMAIN table :
        i # j /\ table[i].feishu_union_id # "" => table[i].feishu_union_id # table[j].feishu_union_id

\* the correlation values for which a run issued a create
CreatedKeys(calls, op) == {calls[i].key : i \in {j \in DOMAIN calls : calls[j].op = op}}

\* a real department phase that started from unique values kept them unique
\* and issued no create for a value a row carried
DeptRunNoDuplicates(run) ==
    run.ran /\ ~run.dry /\ UniqueDeptKeys(run.pre)
        => /\ UniqueDeptKeys(run.res.db)
           /\ CreatedKeys(run.res.calls, "create_department") \cap DeptKeys(run.pre) = {}

UserRunNoDuplicates(run) ==
    run.ran /\ ~run.dry /\ UniqueUserKeys(run.pre.users)
        => /\ UniqueUserKeys(run.res.db.users)
           /\ CreatedKeys(run.res.calls, "create_user") \cap UserKeys(run.pre.users) = {}

\* C14: a real run, whether or not its listing and its writes fail, takes a
\* target with unique correlation values to a target with unique correlation
\* values (no two department rows with the same non-empty feishu_dept_id, no
\* two user rows with the same non-empty feishu_union_id) and issues no
\* create_department or create_user for a value a target row already carries
C14_NoDuplicates ==
    /\ DeptRunNoDuplicates(deptRun)
    /\ UserRunNoDuplicates(userRun)

----------------------------------------------------------------------------
(* C15: the correlation field is written once *)

\* the rows of the table before a step keep their place, their id and their
\* correlation value; the rows the step adds carry a value of the extract
KeysKept(old, new, key, id, src) ==
    /\ \A i \in DOMAIN old :
         /\ i \in DOMAIN new
         /\ new[i][id] = old[i][id]
         /\ new[i][key] = old[i][key]
    /\ \A i \in DOMAIN new \ DOMAIN old : new[i][key] \in src

\* C15: no step changes the feishu_dept_id of a department row or the
\* feishu_union_id of a user row: update_department, disable_department,
\* update_user and disable_user leave it as it is, and a row that is created
\* carries the source id or key of its record from then on
C15_CorrelationWriteOnce ==
    [][/\ KeysKept(sys_dept, sys_dept', "feishu_dept_id", "dept_id", SrcIds(feishu_depts))
       /\ KeysKept(sys_user, sys_user', "feishu_union_id", "user_id", SrcKeys(feishu_users))]_vars

\* a process has updated and disabled a department that has a correlation
\* value and has updated and disabled such a user, every statement executed
C15_Witness ==
    /\ CleanRealProcess
    /\ \E i, j \in DOMAIN deptRun.res.calls :
         /\ deptRun.res.calls[i].op = "update_department" /\ deptRun.res.calls[i].key # ""
         /\ deptRun.res.calls[j].op = "disable_department" /\ deptRun.res.calls[j].key # ""
    /\ \E i, j \in DOMAIN userRun.res.calls :
         /\ userRun.res.calls[i].op = "update_user" /\ userRun.res.calls[i].key # ""
         /\ userRun.res.calls[j].op = "disable_user" /\ userRun.res.calls[j].key # ""

----------------------------------------------------------------------------
(* C16: soft delete only *)

\* every row of the table before a step is a row of the table after it
RowsKept(old, new, id) ==
    \A i \in DOMAIN old : i \in DOMAIN new /\ new[i][id] = old[i][id]

\* the rows for which the calls hold an executed disable differ from what
\* they were in the status flag only, which is '1'
OnlyStatusChanged(old, new, id, calls, op) ==
    \A i \in DOMAIN old :
        (\E c \in DOMAIN calls : calls[c].op = op /\ calls[c].ok /\ calls[c].id = old[i][id])
            => i \in DOMAIN new /\ new[i] = [old[i] EXCEPT !.status = "1"]

\* C16: no step of either phase removes a department row, a user row or a
\* role binding, so the set of target rows never shrinks; the rows that
\* disable_department and disable_user address change in the status flag
\* and in nothing else
C16_SoftDeleteOnly ==
    [][/\ RowsKept(sys_dept, sys_dept', "dept_id")
       /\ RowsKept(sys_user, sys_user', "user_id")
       /\ sys_user_role \subseteq sys_user_role'
       /\ pc = "main" /\ ~DRY_RUN'
            => OnlyStatusChanged(sys_dept, sys_dept', "dept_id",
                                 deptRun'.res.calls, "disable_department")
       /\ pc = "users" /\ ~DRY_RUN
            => OnlyStatusChanged(sys_user, sys_user', "user_id",
                                 userRun'.res.calls, "disable_user")]_vars

\* a process has disabled an active department and an active user, and both
\* rows are still in the target
C16_Witness ==
    /\ CleanRealProcess
    /\ \E i \in DOMAIN deptRun.pre :
         /\ deptRun.pre[i].status = "0"
         /\ sys_dept[i].status = "1"
         /\ HasOp(deptRun.res.calls, "disable_department")
    /\ \E i \in DOMAIN userRun.pre.users :
         /\ userRun.pre.users[i].status = "0"
         /\ sys_user[i].status = "1"
         /\ HasOp(userRun.res.calls, "disable_user")

----------------------------------------------------------------------------
(* Vocabulary of the properties of the extraction *)

\* the departments for which get_all_users submitted a fetch, and those
\* whose fetch returned
Submitted == DOMAIN futures

Succeeded ==
    {d \in Submitted :
        get_users_by_department(feishu_org, d, ResponseTo(responses, "users", d)).ok}

\* the fan-out of get_all_users has taken place and has ended
FanOutEnded == fetch_pc \in {"export", "exited"} /\ Submitted # {}

\* the users the API serves for department d
MembersOf(d) ==
    Range(get_users_by_department(feishu_org, d, GoodResponse).users)

\* the target is as it was when the orchestrating process started
TargetUntouched ==
    /\ sys_dept = TargetOf(feishu_org).depts
    /\ sys_user = TargetOf(feishu_org).db.users
    /\ sys_user_role = TargetOf(feishu_org).db.roles
    /\ ~deptRun.ran
    /\ ~userRun.ran

----------------------------------------------------------------------------
(* C17: fail closed on a data-integrity failure *)

\* the extraction has ended with no department, with no user, or with a
\* number of users that differs from the total the source reported
DataIntegrityFailure ==
    /\ fetch_pc = "exited"
    /\ \/ Len(dept_list) = 0
       \/ Len(all_users) = 0
       \/ total_user_count # NoTotal /\ Len(all_users) # total_user_count

\* C17: when the extraction ends with a deduplicated user count that differs
\* from the total reported by the source, with zero departments or with zero
\* users, fetch_feishu_data.py exits with a non-zero status, neither
\* feishu_users.csv nor feishu_departments.csv exists afterwards, and the
\* process that started it exits without a write to the target
C17_FailClosed ==
    DataIntegrityFailure
        => /\ returncode # 0
           /\ ~csv_exists.users
           /\ ~csv_exists.depts
           /\ pc \in {"fetch", "exit"}
           /\ TargetUntouched

\* departments and users were fetched, the count differs from the total, the
\* files of the earlier extraction are gone and the orchestrator has exited
C17_Witness ==
    /\ DataIntegrityFailure
    /\ Len(dept_list) > 0
    /\ Len(all_users) > 0
    /\ total_user_count # NoTotal
    /\ Len(all_users) # total_user_count
    /\ AUTO_YES
    /\ pc = "exit"

----------------------------------------------------------------------------
(* C18: retry exhaustion is fatal *)

\* the retries for the request are used up: no attempt returns, or every
\* response of the retry loop carries a rate-limit code
RetriesExhausted(resp, limitCodes) ==
    \/ ~request_with_retry(resp)
    \/ \A n \in 1..RateRetries : CodeAt(resp, n) \in limitCodes

\* the parents whose children get_department_info requested
ChildrenRequested ==
    IF fetch_pc \in {"none", "begin"} \/ Submitted = {} THEN {}
    ELSE {"0"} \cup {dept_list[i].dept_id : i \in DOMAIN dept_list}

\* C18: when the retries are used up while the children of a department or
\* the users of a department are fetched, the extraction exits with failure
\* instead of completing with the data of the other departments
C18_RetryExhaustionFatal ==
    (/\ fetch_pc = "exited"
     /\ \/ \E p \in ChildrenRequested :
             RetriesExhausted(ResponseTo(responses, "children", p), {RateLimited})
        \/ \E d \in Submitted :
             RetriesExhausted(ResponseTo(responses, "users", d),
                              {RateLimited, ServiceUnavailable}))
        => returncode # 0

----------------------------------------------------------------------------
(* C19: partition isolation in the concurrent fetch *)

\* every submitted department has been handled, and there is one collected
\* list for each department whose fetch returned
AllAccounted ==
    /\ processed_count = Cardinality(Submitted)
    /\ Len(all_dept_users) = Cardinality(Succeeded)

\* C19 as stated: when the fan-out has ended, every submitted department is
\* accounted for and every user of a department whose fetch returned is in
\* the result
C19_Original ==
    FanOutEnded
        => /\ AllAccounted
           /\ \A d \in Succeeded : MembersOf(d) \subseteq Range(all_users)

\* C19: in get_all_users the failure of the fetch of one department stops no
\* other: when the fan-out has ended every submitted department has been
\* counted as processed, and every department whose fetch returned has
\* contributed its list, so that each of its users that has a user_id is in
\* the result
C19_PartitionIsolation ==
    FanOutEnded
        => /\ AllAccounted
           /\ \A d \in Succeeded :
                {u \in MembersOf(d) : u.user_id # ""} \subseteq Range(all_users)

\* the fetch of one department failed and the users of another, fetched
\* after the failure was handled or before, are in the result
C19_Witness ==
    /\ FanOutEnded
    /\ Submitted \ Succeeded # {}
    /\ \E d \in Succeeded : MembersOf(d) # {} /\ MembersOf(d) \subseteq Range(all_users)
    /\ processed_count = Cardinality(Submitted)

----------------------------------------------------------------------------
(* C20: deduplication after the join *)

\* the user_ids of a list of users
UserIds(list) == {list[i].user_id : i \in DOMAIN list}

\* C20: the deduplication of get_all_users starts when the future of every
\* worker is done and collected; a worker that finishes leaves the collected
\* lists alone, which only the main thread extends, one list per future; and
\* the result holds each user_id once and holds exactly the user_ids of the
\* departments whose fetch returned, in whatever order the workers finish
\* and are collected
C20_DedupAfterJoin ==
    [][/\ fetch_pc = "fanout" /\ fetch_pc' = "export"
            => \A d \in Submitted : futures[d] = "collected"
       /\ (\E d \in Submitted : futures[d] = "running" /\ futures'[d] # "running")
            => UNCHANGED all_dept_users
       /\ all_dept_users' # all_dept_users
            => /\ processed_count' = processed_count + 1
               /\ \E d \in Submitted : futures[d] = "done" /\ futures'[d] = "collected"
       /\ fetch_pc' \in {"export", "exited"} /\ DOMAIN futures' # {}
            => /\ Cardinality(UserIds(all_users')) = Len(all_users')
               /\ UserIds(all_users')
                    = UNION {UserIds(get_users_by_department(feishu_org, d,
                                            GoodResponse).users) : d \in Succeeded} \ {""}]_vars

\* a user fetched with two departments is in the result once, while the
\* fetch of another department failed
C20_Witness ==
    /\ fetch_pc = "export"
    /\ total_fetched > Len(all_users)
    /\ Len(all_users) > 0
    /\ Submitted \ Succeeded # {}

----------------------------------------------------------------------------
(* C21 *)

\* a run of sync_departments that returned and in which a write call failed
FailedDeptRun(run) ==
    /\ run.ran
    /\ ~run.dry
    /\ ~run.res.crashed
    /\ ~AllOk(run.res.calls)

\* a run of sync_users in which a write call failed
FailedUserRun(run) == run.ran /\ ~run.dry /\ ~AllOk(run.res.calls)

\* the loop over the levels took the matched or the create branch for every
\* department of the extract, and the disable pass called
\* disable_department for every stale active row of the listing
DeptPhaseCompleted(run) ==
    /\ \A i \in DOMAIN run.src :
        run.src[i].level \in 0..(LevelRange - 1) =>
            \E k \in DOMAIN run.res.visited : run.res.visited[k].key = run.src[i].dept_id
    /\ \A i \in DOMAIN run.res.listed :
        StaleActive(run.res.listed[i], run.src) =>
            DisableCalls(run, run.res.listed[i].dept_id) = 1

\* the user phase of the process follows the department phase: it is the
\* next step, or it ran with the results of that department phase
UserPhaseFollows ==
    \/ pc = "users"
    \/ userRun.ran /\ userRun.drun = deptRun

\* every user of the extract was skipped for its missing key, compared with
\* its row, or given to create_user, and the disable pass called
\* disable_user for every stale user of the listing
UserPhaseCompleted(run) ==
    /\ \A i \in DOMAIN run.src :
        \/ run.src[i].union_id = ""
        \/ run.src[i].union_id \in DOMAIN run.res.ruoyi_user_map
        \/ CallsOn(run.res.calls, {"create_user"}, run.src[i].union_id) # {}
    /\ \A i \in DOMAIN run.res.listed :
        StaleUser(run.res.listed[i], run.src) =>
            UserDisableCalls(run, run.res.listed[i].user_id) = 1

\* the departments whose last create or update call of the run failed
FailedDepts(res) ==
    {res.calls[j].key : j \in {i \in DOMAIN res.calls :
        /\ res.calls[i].op \in {"create_department", "update_department"}
        /\ ~res.calls[i].ok
        /\ \A k \in CallsOn(res.calls, {"create_department", "update_department"},
                            res.calls[i].key) : k <= i}}

\* a department whose write failed is no key of dept_id_map
FailedDeptsUnmapped(run) == FailedDepts(run.res) \cap DOMAIN run.res.dept_id_map = {}

\* the lists of created, updated and disabled users hold one entry for
\* every call that succeeded and none for a call that failed, and the
\* counters are their lengths
FailedUsersUnlisted(run) ==
    LET Ok(op) == {i \in DOMAIN run.res.calls :
                      run.res.calls[i].op = op /\ run.res.calls[i].ok}
    IN /\ Len(run.res.new_users) = Cardinality(Ok("create_user"))
       /\ Len(run.res.updated_users) = Cardinality(Ok("update_user"))
       /\ Len(run.res.disabled_users) = Cardinality(Ok("disable_user"))
       /\ run.res.new_count = Len(run.res.new_users)
       /\ run.res.update_count = Len(run.res.updated_users)
       /\ run.res.disable_count = Len(run.res.disabled_users)

\* C21: when a create, update or disable call of a real run fails, the run
\* goes on: the department phase still handles every department of the
\* extract and its disable pass, the user phase follows and handles every
\* user of the extract and its disable pass, and the department or user
\* whose write failed is absent from dept_id_map, respectively from the
\* lists of created, updated and disabled users.
C21_WriteFailuresNonFatal ==
    /\ FailedDeptRun(deptRun) =>
        /\ DeptPhaseCompleted(deptRun)
        /\ UserPhaseFollows
        /\ FailedDeptsUnmapped(deptRun)
    /\ FailedUserRun(userRun) =>
        /\ UserPhaseCompleted(userRun)
        /\ FailedUsersUnlisted(userRun)

----------------------------------------------------------------------------
(* C22 *)

\* a real run that returned, followed by a failure-free real run on the same
\* extract that read the table the first one left
RerunAfterFailure ==
    /\ prevDeptRun.ran
    /\ ~prevDeptRun.dry
    /\ ~prevDeptRun.res.crashed
    /\ DeptListed(prevDeptRun)
    /\ CleanRealDept(deptRun)
    /\ deptRun.src = prevDeptRun.src
    /\ deptRun.pre = prevDeptRun.res.db

\* the departments for which a create_department call of the run failed
FailedCreates(run) ==
    {run.res.calls[j].key : j \in {i \in DOMAIN run.res.calls :
        run.res.calls[i].op = "create_department" /\ ~run.res.calls[i].ok}}

\* the children of p in the extract that the run wrote while p had no target
\* id, so that the row carries the id of another department as its parent
Displaced(run, p) ==
    {run.src[i].dept_id : i \in {k \in DOMAIN run.src :
        /\ run.src[k].parent_dept_id = p
        /\ \E j \in CallsOn(run.res.calls, {"create_department", "update_department"},
                            run.src[k].dept_id) :
              /\ run.res.calls[j].ok
              /\ \A m \in CallsOn(run.res.calls, {"create_department"}, p) :
                    run.res.calls[m].ok => m > j}}

\* the run created p with one call, moved every displaced child under p's
\* new id with an update, and a further run on its table issues no write
Recovered(run, p, children) ==
    /\ Cardinality(CallsOn(run.res.calls, {"create_department"}, p)) = 1
    /\ p \in DOMAIN run.res.dept_id_map
    /\ \A c \in children :
          \E j \in CallsOn(run.res.calls, {"update_department"}, c) :
              run.res.calls[j].parent_id = run.res.dept_id_map[p]
    /\ sync_departments(run.res.db, run.src, CleanEnv).calls = <<>>

\* C22: when create_department failed for a department P of the extract in
\* one run and children of P were therefore written under another target
\* department, the next failure-free run on the same extract creates P with
\* exactly one call and issues an update for each such child that sets its
\* parent to P's new target id, and a further run issues no department
\* write.
C22_RecoveryByRerun ==
    RerunAfterFailure =>
        \A p \in FailedCreates(prevDeptRun) :
            Displaced(prevDeptRun, p) # {} =>
                Recovered(deptRun, p, Displaced(prevDeptRun, p))

----------------------------------------------------------------------------
(* sync_to_ruoyi.py: calculate_level                                       *)

\* Variant of calculate_level: the parent is not consulted, every
\* department of the dict is one level below the sentinel.
calculate_level_NoParent(dept_id, feishu_depts_dict, cache, depth) ==
    IF dept_id \in DOMAIN cache
    THEN [level |-> cache[dept_id], cache |-> cache, crashed |-> FALSE]
    ELSE IF dept_id = "0" \/ dept_id \notin DOMAIN feishu_depts_dict
    THEN [level |-> 0, cache |-> DictPut(cache, dept_id, 0), crashed |-> FALSE]
    ELSE [level |-> 1, cache |-> DictPut(cache, dept_id, 1), crashed |-> FALSE]

RECURSIVE calculate_level(_, _, _, _)
\* calculate_level(dept_id, feishu_depts_dict, level_cache): the level
\* returned and the cache afterwards.  The cache is the default argument of
\* the function, one dict for all its calls.  A chain of parents that
\* returns to a department on it never ends: the call at depth
\* len(feishu_depts_dict) + 1 is such a chain, RecursionError is raised and
\* no entry has been written to the cache.
calculate_level(dept_id, feishu_depts_dict, cache, depth) ==
    IF dept_id \in DOMAIN cache
    THEN [level |-> cache[dept_id], cache |-> cache, crashed |-> FALSE]
    ELSE IF dept_id = "0" \/ dept_id \notin DOMAIN feishu_depts_dict
    THEN [level |-> 0, cache |-> DictPut(cache, dept_id, 0), crashed |-> FALSE]
    ELSE IF depth > Cardinality(DOMAIN feishu_depts_dict)
    THEN [level |-> NullLevel, cache |-> cache, crashed |-> TRUE]
    ELSE LET Returned(p) ==
                 IF p.crashed THEN [p EXCEPT !.cache = cache]
                 ELSE [level |-> p.level + 1,
                       cache |-> DictPut(p.cache, dept_id, p.level + 1),
                       crashed |-> FALSE]
         IN Returned(calculate_level(feishu_depts_dict[dept_id].parent_dept_id,
                                     feishu_depts_dict, cache, depth + 1))

----------------------------------------------------------------------------
(* fetch_feishu_data.py: name_to_pinyin and generate_uuid_from_email.  A   *)
(* string is the sequence of its characters.  A Han character is named by  *)
(* the reading lazy_pinyin gives it; any other character, and a reading    *)
(* written into a string, is a piece of text.                              *)

Han(c) == [han |-> TRUE, c |-> c]
Text(c) == [han |-> FALSE, c |-> c]

\* SURNAME_PINYIN, for two of its characters: '单' (read dan, as a surname
\* shan) and '查' (read cha, as a surname zha)
SURNAME_PINYIN == [c \in {"dan", "cha"} |-> IF c = "dan" THEN "shan" ELSE "zha"]

RECURSIVE Replaced(_, _)
\* for char, pinyin in SURNAME_PINYIN.items():
\*     name = name.replace(char, f'[{pinyin}]')
\* from character i on: every occurrence of a character of the table
\* becomes the text '[', its reading, ']'
Replaced(name, i) ==
    IF i > Len(name) THEN <<>>
    ELSE (IF name[i].han /\ name[i].c \in DOMAIN SURNAME_PINYIN
          THEN <<Text("["), Text(SURNAME_PINYIN[name[i].c]), Text("]")>>
          ELSE <<name[i]>>)
         \o Replaced(name, i + 1)

RECURSIVE lazy_pinyin(_, _, _)
\* lazy_pinyin(name, style=Style.NORMAL) from character i on, `run` being the
\* text read since the last Han character: one element for each Han
\* character, its reading, and one for each run of other characters, the run
\* as it is
lazy_pinyin(name, i, run) ==
    LET Flushed == IF run = <<>> THEN <<>> ELSE <<run>>
    IN IF i > Len(name) THEN Flushed
       ELSE IF name[i].han
       THEN Flushed \o <<(<<name[i].c>>)>> \o lazy_pinyin(name, i + 1, <<>>)
       ELSE lazy_pinyin(name, i + 1, Append(run, name[i].c))

RECURSIVE lstrip(_)
lstrip(p) == IF p # <<>> /\ p[1] \in {"[", "]"} THEN lstrip(Tail(p)) ELSE p

RECURSIVE rstrip(_)
rstrip(p) ==
    IF p # <<>> /\ p[Len(p)] \in {"[", "]"} THEN rstrip(SubSeq(p, 1, Len(p) - 1)) ELSE p

\* p.strip('[]')
strip(p) == rstrip(lstrip(p))

\* str.lower(), on the characters of the model
lower(p) == [i \in DOMAIN p |-> IF p[i] = "J" THEN "j" ELSE IF p[i] = "A" THEN "a" ELSE p[i]]

RECURSIVE join(_)
\* "".join(list)
join(list) == IF list = <<>> THEN <<>> ELSE list[1] \o join(Tail(list))

\* the branches of name_to_pinyin on the length of pinyin_list
NameOf(pinyin_list) ==
    IF Len(pinyin_list) = 0 THEN <<>>
    ELSE IF Len(pinyin_list) = 1 THEN lower(pinyin_list[1])
    ELSE lower(join(Tail(pinyin_list))) \o <<".">> \o lower(pinyin_list[1])

\* pinyin_list = [p.strip('[]') for p in pinyin_list]
Stripped(pinyin_list) == [i \in DOMAIN pinyin_list |-> strip(pinyin_list[i])]

\* name_to_pinyin(name)
name_to_pinyin(name) ==
    IF name = <<>> THEN <<>>
    ELSE NameOf(Stripped(lazy_pinyin(Replaced(name, 1), 1, <<>>)))

\* uuid.uuid5(uuid.NAMESPACE_DNS, name): the hash of the namespace and the
\* name
uuid5(namespace, name) == <<"uuid5", namespace>> \o name

\* Variant of generate_uuid_from_email: the email is hashed as written.
generate_uuid_from_email_AsWritten(email) ==
    IF email = <<>> THEN <<>> ELSE uuid5("NAMESPACE_DNS", email)

\* generate_uuid_from_email(email)
generate_uuid_from_email(email) ==
    IF email = <<>> THEN <<>> ELSE uuid5("NAMESPACE_DNS", lower(email))

----------------------------------------------------------------------------
(* The functions applied on their own to inputs of every shape *)

MaxNameLen == 3      \* characters of a name
MaxEmailLen == 2     \* characters of an email

\* the characters of a name: a Han character that is no key of
\* SURNAME_PINYIN, two that are, and a capital Latin letter
NameChars == {Han("li"), Han("dan"), Han("cha"), Text("J")}

Names == UNION {[1..n -> NameChars] : n \in 0..MaxNameLen}

Emails == UNION {[1..n -> {"a", "A", "b"}] : n \in 0..MaxEmailLen}

\* what a function applied on its own leaves in last_call
Call(fn, arg, ret, level, crashed) ==
    [fn |-> fn, arg |-> arg, ret |-> ret, level |-> level, crashed |-> crashed]

\* a process of sync_to_ruoyi.py that has read an extract of some shape or
\* is about to synchronise the users, or a process of fetch_feishu_data.py
\* about to make its requests or about to export its users
InitFunctions ==
    /\ \/ /\ pc = "rest"
          /\ fetch_pc = "none"
          /\ feishu_depts \in SrcDeptFamily
       \/ /\ pc = "rest_users"
          /\ fetch_pc = "none"
          /\ feishu_depts = <<>>
       \/ /\ pc = "fetch"
          /\ fetch_pc \in {"begin", "export"}
          /\ feishu_depts = <<>>
    /\ sys_dept = FreshDepts
    /\ sys_user = FreshDb.users
    /\ sys_user_role = FreshDb.roles
    /\ feishu_users = <<>>
    /\ NoRunYet
    /\ runs = 0
    /\ feishu_org = Org(<<>>, <<>>)
    /\ responses = {}
    /\ AUTO_YES = FALSE
    /\ csv_exists = [users |-> TRUE, depts |-> TRUE]
    /\ returncode = 0
    /\ total_user_count = NoTotal
    /\ dept_list = <<>>
    /\ futures = EmptyDict
    /\ all_dept_users = <<>>
    /\ processed_count = 0
    /\ all_users = <<>>
    /\ total_fetched = 0
    /\ retry_counter = 0
    /\ in_worker = EmptyDict
    /\ NoFunctionCalled

\* level = calculate_level(dept_id, feishu_depts_dict) in sync_departments
\* of sync_to_ruoyi.py, for a department id or the id of a parent; a
\* RecursionError ends the process
CalculateLevel ==
    /\ pc = "rest"
    /\ \E dept_id \in {"0"} \cup DeptIds \cup SrcIds(feishu_depts) :
        \E r \in {calculate_level(dept_id, FeishuDeptsDict(feishu_depts), level_cache, 1)} :
           /\ level_cache' = r.cache
           /\ last_call' = Call("calculate_level", dept_id, "", r.level, r.crashed)
           /\ pc' = IF r.crashed THEN "exit" ELSE pc
    /\ UNCHANGED <<sys_dept, sys_user, sys_user_role, feishu_depts, feishu_users, DRY_RUN,
                   dept_result, deptRun, prevDeptRun, userRun, prevUserRun, runs>>
    /\ UNCHANGED fetchVars

\* pinyin = name_to_pinyin(name) in export_to_csv, for the name of a user
NameToPinyin ==
    /\ fetch_pc = "export"
    /\ \E name \in Names :
        last_call' = Call("name_to_pinyin", name, name_to_pinyin(name), 0, FALSE)
    /\ UNCHANGED <<syncVars, fetchVars, level_cache>>

\* user_uuid = generate_uuid_from_email(enterprise_email) in export_to_csv
GenerateUuidFromEmail ==
    /\ fetch_pc = "export"
    /\ \E email \in Emails :
        last_call' = Call("generate_uuid_from_email", email,
                          generate_uuid_from_email(email), 0, FALSE)
    /\ UNCHANGED <<syncVars, fetchVars, level_cache>>

\* ruoyi_user_map of sync_to_ruoyi.py: a row of /system/user/list is entered
\* under its remark, when it has one, and under its userName; a later entry
\* replaces an earlier one with the same key
RestUserMap(rows) ==
    [k \in ({rows[i].remark : i \in DOMAIN rows} \ {""})
           \cup {rows[i].userName : i \in DOMAIN rows} |->
        rows[SeqMax({i \in DOMAIN rows : rows[i].remark = k \/ rows[i].userName = k})]]

\* the key under which sync_users of sync_to_ruoyi.py finds existing_user
\* for a row of the extract, "" when it finds none
RestMatchKey(u, user_map) ==
    IF u.union_id # "" /\ u.union_id \in DOMAIN user_map THEN u.union_id
    ELSE IF u.pinyin \in DOMAIN user_map THEN u.pinyin
    ELSE ""

RECURSIVE RestSyncFrom(_, _, _, _, _, _)
\* the loop "for feishu_user in feishu_users" of sync_users of
\* sync_to_ruoyi.py from row i on: the calls made, each with user_data (userId
\* is 0 for a user to create) and with what it returned; a call returns True
\* in a dry run and when its number is not in env.fail
RestSyncFrom(users, i, user_map, dept_id_map, env, calls) ==
    IF i > Len(users) THEN calls
    ELSE LET DataOf(u, userId) ==
                 [userId |-> userId, userName |-> u.pinyin, nickName |-> u.name,
                  email |-> u.enterprise_email,
                  deptId |-> DictGet(dept_id_map, u.dept_id, DefaultRootId),
                  remark |-> u.union_id]
             CallFor(u, key) ==
                 IF key = ""
                 THEN [op |-> "create_user", data |-> DataOf(u, 0)]
                 ELSE [op |-> "update_user", data |-> DataOf(u, user_map[key].userId)]
             Answered(c) ==
                 [op |-> c.op, data |-> c.data, row |-> i,
                  ok |-> env.dry \/ (Len(calls) + 1) \notin env.fail]
         IN RestSyncFrom(users, i + 1, user_map, dept_id_map, env,
                Append(calls,
                       Answered(CallFor(users[i], RestMatchKey(users[i], user_map)))))

\* sync_users of sync_to_ruoyi.py: the calls, new_count and update_count
rest_sync_users(users, ruoyi_users, dept_id_map, env) ==
    LET Counted(calls) ==
            [calls |-> calls,
             new_count |-> Cardinality({j \in DOMAIN calls :
                                          calls[j].op = "create_user" /\ calls[j].ok}),
             update_count |-> Cardinality({j \in DOMAIN calls :
                                             calls[j].op = "update_user" /\ calls[j].ok})]
    IN Counted(RestSyncFrom(users, 1, RestUserMap(ruoyi_users), dept_id_map, env, <<>>))

\* sync_users(api, dept_id_map) of sync_to_ruoyi.py.  The extract has no
\* user, a user with or without union_id, that user with another name, or
\* two users; the target has no user or the first user as a run on the
\* extract leaves it; department A is mapped to the row after the root, or
\* no department is mapped
RestSyncUsers ==
    /\ pc = "rest_users"
    /\ \E users \in
            LET Row(union_id, pinyin, name, email, dept_id) ==
                    [union_id |-> union_id, pinyin |-> pinyin, name |-> name,
                     enterprise_email |-> email, dept_id |-> dept_id]
            IN {<<>>,
                <<Row("u1", "zs", "x", "m1", "A")>>,
                <<Row("", "zs", "x", "m1", "A")>>,
                <<Row("u1", "zs", "y", "m1", "A")>>,
                <<Row("u1", "zs", "x", "m1", "A"), Row("u2", "ls", "z", "m2", "Q")>>},
          ruoyi_users \in
            {<<>>,
             <<[userId |-> 1, userName |-> "zs", nickName |-> "x", email |-> "m1",
                deptId |-> DefaultRootId + 1, remark |-> "u1"]>>},
          dept_id_map \in {EmptyDict, [d \in {"A"} |-> DefaultRootId + 1]},
          dry \in BOOLEAN, fail \in SUBSET (1..MaxFailPos) :
        last_call' = Call("sync_users",
                          [users |-> users, ruoyi_users |-> ruoyi_users,
                           dept_id_map |-> dept_id_map, dry |-> dry],
                          rest_sync_users(users, ruoyi_users, dept_id_map,
                                          [dry |-> dry, fail |-> fail]),
                          0, FALSE)
    /\ UNCHANGED <<syncVars, fetchVars, level_cache>>

\* response = request_with_retry(method, url, ...) in a function that calls
\* the API, with the network behaving in any way during the attempts; one
\* outcome more than the attempts allowed is at hand
RequestWithRetry ==
    /\ fetch_pc = "begin"
    /\ \E outcomes \in [1..(MAX_RETRIES + 1) -> AttemptOutcomes] :
        last_call' = Call("request_with_retry", outcomes, RetryLoop(outcomes, 0, <<>>),
                          0, FALSE)
    /\ UNCHANGED <<syncVars, fetchVars, level_cache>>

NextFunctions ==
    CalculateLevel \/ NameToPinyin \/ GenerateUuidFromEmail \/ RequestWithRetry
    \/ RestSyncUsers

SpecFunctions == InitFunctions /\ [][NextFunctions]_vars

----------------------------------------------------------------------------
(* C23 *)

RECURSIVE Rooted(_, _, _)
\* the chain of parents of id ends at the sentinel or at a missing id
\* within fuel steps
Rooted(id, dict, fuel) ==
    \/ id = "0"
    \/ id \notin DOMAIN dict
    \/ fuel > 0 /\ Rooted(dict[id].parent_dept_id, dict, fuel - 1)

\* the parent pointers of the records contain no cycle
Acyclic(dict) == \A id \in DOMAIN dict : Rooted(id, dict, Cardinality(DOMAIN dict))

RECURSIVE PlainLevel(_, _)
\* the level by the recursion alone: 0 for the sentinel and for a missing
\* id, one more than the parent's otherwise
PlainLevel(id, dict) ==
    IF id = "0" \/ id \notin DOMAIN dict THEN 0
    ELSE PlainLevel(dict[id].parent_dept_id, dict) + 1

\* a call of calculate_level on an extract without cycle
LevelCallOnForest ==
    /\ last_call.fn = "calculate_level"
    /\ Acyclic(FeishuDeptsDict(feishu_depts))

\* C23: on department records whose parent pointers contain no cycle,
\* calculate_level returns 0 for the sentinel "0", one more than it returns
\* for the parent for a department whose parent is the sentinel or a
\* department of the set, and 1 for a department whose parent id is missing
\* from the set; what it returns with the cache its earlier calls filled is
\* what the recursion without cache gives.
C23_LevelComputation ==
    LevelCallOnForest =>
        LET dict == FeishuDeptsDict(feishu_depts)
            id == last_call.arg
            Fresh(d) == calculate_level(d, dict, EmptyDict, 1).level
        IN /\ ~last_call.crashed
           /\ id = "0" => last_call.level = 0
           /\ id \in DOMAIN dict =>
                /\ last_call.level = Fresh(dict[id].parent_dept_id) + 1
                /\ dict[id].parent_dept_id \notin DOMAIN dict \cup {"0"} =>
                       last_call.level = 1
           /\ last_call.level = PlainLevel(id, dict)
           /\ last_call.level = Fresh(id)

\* a call answered from a cache that earlier calls filled, for a department
\* two levels below the sentinel, and one for a department whose parent is
\* missing
C23_Witness ==
    /\ LevelCallOnForest
    /\ last_call.arg \in DOMAIN level_cache
    /\ Cardinality(DOMAIN level_cache) >= 3
    /\ last_call.level = 2
    /\ \E id \in DOMAIN FeishuDeptsDict(feishu_depts) :
        /\ FeishuDeptsDict(feishu_depts)[id].parent_dept_id
               \notin DOMAIN FeishuDeptsDict(feishu_depts) \cup {"0"}
        /\ id \in DOMAIN level_cache
        /\ level_cache[id] = 1

----------------------------------------------------------------------------
(* C24 *)

RECURSIVE ParentAt(_, _, _)
\* the k-th parent of id, "0" past the sentinel or a missing id
ParentAt(id, dict, k) ==
    IF id = "0" \/ id \notin DOMAIN dict THEN "0"
    ELSE IF k = 0 THEN id
    ELSE ParentAt(dict[id].parent_dept_id, dict, k - 1)

\* the departments on a cycle of parent pointers
OnCycle(dict) ==
    {id \in DOMAIN dict : \E k \in 1..Cardinality(DOMAIN dict) : ParentAt(id, dict, k) = id}

\* C24: on every extract, also one whose parent pointers form a cycle,
\* calculate_level returns and a run of sync_departments returns from
\* create_dept_recursive; a department on a cycle gets level 1 and every
\* create or update call for it carries the default root as its parent.
C24_CycleTolerance ==
    LET dict == FeishuDeptsDict(feishu_depts)
    IN /\ last_call.fn = "calculate_level" =>
            /\ ~last_call.crashed
            /\ last_call.arg \in OnCycle(dict) => last_call.level = 1
       /\ deptRun.ran =>
            /\ ~deptRun.res.crashed
            /\ \A id \in OnCycle(FeishuDeptsDict(deptRun.src)) :
                /\ \E k \in DOMAIN deptRun.res.visited : deptRun.res.visited[k].key = id
                /\ \A j \in CallsOn(deptRun.res.calls,
                                    {"create_department", "update_department"}, id) :
                       deptRun.res.calls[j].parent_id = DefaultRootId

----------------------------------------------------------------------------
(* C25 *)

\* the transliteration units of a name: one for each Han character, one for
\* each run of other characters
Units(name) == lazy_pinyin(name, 1, <<>>)

\* what a unit may be written as: itself in lowercase, or the surname
\* reading of its character
Readings(unit) ==
    {lower(unit)}
    \cup (IF Len(unit) = 1 /\ unit[1] \in DOMAIN SURNAME_PINYIN
          THEN {<<SURNAME_PINYIN[unit[1]]>>} ELSE {})

RECURSIVE Concatenations(_, _)
\* the units from i on, each in one of its readings, written without
\* separator
Concatenations(units, i) ==
    IF i > Len(units) THEN {<<>>}
    ELSE {r \o g : r \in Readings(units[i]), g \in Concatenations(units, i + 1)}

\* given name, dot, surname
Handles(units) ==
    {g \o <<".">> \o s : g \in Concatenations(units, 2), s \in Readings(units[1])}

\* C25: name_to_pinyin returns the empty string for the empty name, the one
\* unit in lowercase and without dot for a name of one transliteration
\* unit, and for a name of two or more units the units after the first in
\* lowercase without separator, a dot, and the first unit in lowercase.
C25_LoginHandleFormat ==
    last_call.fn = "name_to_pinyin" =>
        LET units == Units(last_call.arg)
        IN /\ Len(units) = 0 => last_call.ret = <<>>
           /\ Len(units) = 1 => last_call.ret \in Readings(units[1])
           /\ Len(units) >= 2 => last_call.ret \in Handles(units)

----------------------------------------------------------------------------
(* C26 *)

RECURSIVE DotAt(_, _)
\* the position of the last dot of a handle at or before i, 0 without dot
DotAt(handle, i) ==
    IF i = 0 THEN 0 ELSE IF handle[i] = "." THEN i ELSE DotAt(handle, i - 1)

\* the part of a handle after its last dot: the surname
SurnamePart(handle) == SubSeq(handle, DotAt(handle, Len(handle)) + 1, Len(handle))

\* the part of a handle before its last dot: the given name
GivenPart(handle) == SubSeq(handle, 1, DotAt(handle, Len(handle)) - 1)

IsTableChar(ch) == ch.han /\ ch.c \in DOMAIN SURNAME_PINYIN

\* C26: a character of SURNAME_PINYIN gets its surname reading only as the
\* first character of the name: a name that starts with one has that
\* reading as its surname part, whatever the second character is, and the
\* characters after the first are written in their default readings.
C26_SurnameReadingFirstOnly ==
    (last_call.fn = "name_to_pinyin" /\ last_call.arg # <<>>) =>
        LET name == last_call.arg
        IN /\ IsTableChar(name[1]) =>
                SurnamePart(last_call.ret) = <<SURNAME_PINYIN[name[1].c]>>
           /\ (name[1].han /\ Len(name) >= 2) =>
                GivenPart(last_call.ret) = lower(join(Units(Tail(name))))

----------------------------------------------------------------------------
(* C27 *)

\* two emails that differ at most in the case of their letters
SameButCase(e1, e2) ==
    /\ Len(e1) = Len(e2)
    /\ \A i \in DOMAIN e1 : e1[i] = e2[i] \/ {e1[i], e2[i]} = {"a", "A"}

\* C27: the key generate_uuid_from_email returned for an email is the key
\* another call returns for the same email and for every email that differs
\* from it only in letter case, whatever was called before; the key of the
\* empty email is the empty string.
C27_KeyDeterminism ==
    last_call.fn = "generate_uuid_from_email" =>
        /\ \A e \in Emails :
            SameButCase(e, last_call.arg) =>
                generate_uuid_from_email(e) = last_call.ret
        /\ last_call.arg = <<>> => last_call.ret = <<>>

\* a call for an email with a capital letter, whose key is not empty and is
\* the key of the email in lowercase
C27_Witness ==
    /\ last_call.fn = "generate_uuid_from_email"
    /\ last_call.arg = <<"A", "b">>
    /\ last_call.ret # <<>>
    /\ last_call.ret = generate_uuid_from_email(<<"a", "b">>)

----------------------------------------------------------------------------
(* C28 *)

\* the extraction ended well: feishu_users.csv is what it exported
ExtractionDone == fetch_pc = "exited" /\ returncode = 0

\* the target department of a user with these department_ids
PrimaryDept(department_ids, dept_id_map) ==
    IF department_ids = <<>> THEN DefaultRootId
    ELSE IF department_ids[1] = "0" THEN DefaultRootId
    ELSE IF department_ids[1] \notin DOMAIN dept_id_map THEN DefaultRootId
    ELSE dept_id_map[department_ids[1]]

\* the create_user and update_user calls of a run for the user with this key
UserWrites(run, key) == CallsOn(run.res.calls, {"create_user", "update_user"}, key)

\* C28: every create_user or update_user call for a user the extraction
\* exported carries as dept_id what dept_id_map gives for the first entry of
\* the user's department_ids, and 100 when the user has no department, when
\* the first entry is "0" or when it is no key of dept_id_map; the entries
\* after the first do not matter.
C28_PrimaryDepartment ==
    (ExtractionDone /\ userRun.ran) =>
        \A i \in DOMAIN feishu_org.users :
            \A j \in UserWrites(userRun, feishu_org.users[i].union_id) :
                userRun.res.calls[j].dept_id =
                    PrimaryDept(feishu_org.users[i].department_ids,
                                userRun.drun.res.dept_id_map)

\* a run that mapped A and updated a user listed under "0" and A and one
\* listed under an unmapped department and A, both to 100, created a user
\* without department in 100 and a user of A in A's target department
C28_Witness ==
    /\ ExtractionDone
    /\ userRun.ran
    /\ feishu_org = OrgRoot
    /\ "A" \in DOMAIN userRun.drun.res.dept_id_map
    /\ userRun.drun.res.dept_id_map["A"] # DefaultRootId
    /\ \E j \in UserWrites(userRun, "u1") :
        userRun.res.calls[j].op = "update_user" /\ userRun.res.calls[j].dept_id = DefaultRootId
    /\ \E j \in UserWrites(userRun, "u3") :
        userRun.res.calls[j].op = "update_user" /\ userRun.res.calls[j].dept_id = DefaultRootId
    /\ \E j \in UserWrites(userRun, "u2") :
        userRun.res.calls[j].op = "create_user" /\ userRun.res.calls[j].dept_id = DefaultRootId
    /\ \E j \in UserWrites(userRun, "u4") :
        /\ userRun.res.calls[j].op = "create_user"
        /\ userRun.res.calls[j].dept_id = userRun.drun.res.dept_id_map["A"]

----------------------------------------------------------------------------
(* C29 *)

\* the correlation keys of the users the API serves as frozen or resigned
ExcludedKeys(o) ==
    {o.users[i].union_id : i \in {k \in DOMAIN o.users :
        o.users[k].is_frozen \/ o.users[k].is_resigned}}

\* C29: a user whose status says frozen or resigned has no row in the
\* feishu_users.csv the extraction exported, gets no create_user or
\* update_user call in the run on it, and a target user with that user's
\* feishu_union_id gets the disable_user call of a user that is absent from
\* the source.
C29_FrozenResignedExcluded ==
    ExtractionDone =>
        \A key \in ExcludedKeys(feishu_org) :
            /\ \A i \in DOMAIN feishu_users : feishu_users[i].union_id # key
            /\ userRun.ran =>
                /\ UserWrites(userRun, key) = {}
                /\ \A i \in DOMAIN userRun.res.listed :
                    (/\ userRun.res.listed[i].feishu_union_id = key
                     /\ userRun.res.listed[i].user_name # "admin") =>
                        UserDisableCalls(userRun, userRun.res.listed[i].user_id) = 1

\* a real run after the extraction of OrgFlat that disabled the target users
\* of the resigned w1 and of the frozen w3 and created w2
C29_Witness ==
    /\ ExtractionDone
    /\ feishu_org = OrgFlat
    /\ userRun.ran
    /\ ~userRun.dry
    /\ Len(feishu_users) = 1
    /\ \E i, k \in DOMAIN userRun.res.listed :
        /\ userRun.res.listed[i].feishu_union_id = "u1"
        /\ userRun.res.listed[k].feishu_union_id = "u3"
        /\ UserDisableCalls(userRun, userRun.res.listed[i].user_id) = 1
        /\ UserDisableCalls(userRun, userRun.res.listed[k].user_id) = 1
        /\ \E j \in DOMAIN sys_user :
            /\ sys_user[j].user_id = userRun.res.listed[i].user_id
            /\ sys_user[j].status = "1"
    /\ UserWrites(userRun, "u2") # {}

----------------------------------------------------------------------------
(* C30 *)

\* the positions of the failed create_department calls for department d
FailedCreateCalls(res, d) ==
    {j \in CallsOn(res.calls, {"create_department"}, d) : ~res.calls[j].ok}

\* every create or update call for a child of d after a failed create of d
\* carries the default root as parent
ChildrenUnderRoot(run, d) ==
    \A i \in DOMAIN run.src :
        run.src[i].parent_dept_id = d =>
            \A j \in CallsOn(run.res.calls, {"create_department", "update_department"},
                             run.src[i].dept_id) :
                (\E f \in FailedCreateCalls(run.res, d) : f < j) =>
                    run.res.calls[j].parent_id = DefaultRootId

\* every create or update call for a user whose dept_id is d carries the
\* default root as department
MembersUnderRoot(urun, d) ==
    \A i \in DOMAIN urun.src :
        urun.src[i].dept_id = d =>
            \A j \in UserWrites(urun, urun.src[i].union_id) :
                urun.res.calls[j].dept_id = DefaultRootId

\* C30: when create_department failed for a department D of the extract in
\* a run of sync_departments, D is no key of the dept_id_map the run
\* returns, the child departments of D written after the failure have
\* parent id 100, and in the user phase that follows the users whose
\* dept_id is D are written with department 100.
C30_FallbackAfterFailedCreate ==
    /\ (deptRun.ran /\ ~deptRun.res.crashed) =>
        \A d \in FailedCreates(deptRun) :
            /\ d \notin DOMAIN deptRun.res.dept_id_map
            /\ ChildrenUnderRoot(deptRun, d)
    /\ (userRun.ran /\ ~userRun.drun.res.crashed) =>
        \A d \in FailedCreates(userRun.drun) : MembersUnderRoot(userRun, d)

----------------------------------------------------------------------------
(* C31 *)

\* the number of create_department calls of the run for department d
CreateAttempts(run, d) ==
    Cardinality(CallsOn(run.res.calls, {"create_department"}, d))

\* C31: in one run of sync_departments, create_department is called at most
\* once for each department of the extract, also when that call fails and
\* the department has several children processed afterwards.
C31_AtMostOneCreateAttempt ==
    deptRun.ran =>
        \A d \in SrcIds(deptRun.src) : CreateAttempts(deptRun, d) <= 1

----------------------------------------------------------------------------
(* C32 *)

\* the number of calls of an operation in the run that succeeded
SuccessfulCalls(calls, op) ==
    Cardinality({i \in DOMAIN calls : calls[i].op = op /\ calls[i].ok})

\* the three counts sync_departments returns are the successful calls
DeptCountsAreSuccesses(res) ==
    /\ res.dept_created_count = SuccessfulCalls(res.calls, "create_department")
    /\ res.dept_updated_count = SuccessfulCalls(res.calls, "update_department")
    /\ res.dept_disabled_count = SuccessfulCalls(res.calls, "disable_department")

\* the three counts sync_users returns are the successful calls
UserCountsAreSuccesses(res) ==
    /\ res.new_count = SuccessfulCalls(res.calls, "create_user")
    /\ res.update_count = SuccessfulCalls(res.calls, "update_user")
    /\ res.disable_count = SuccessfulCalls(res.calls, "disable_user")

\* C32: the created, updated and disabled counts returned by
\* sync_departments and by sync_users each equal the number of create,
\* update and disable calls of that phase that succeeded; a failed call is
\* in no count.
C32_CountsEqualSuccessfulWrites ==
    /\ (deptRun.ran /\ ~deptRun.res.crashed) => DeptCountsAreSuccesses(deptRun.res)
    /\ userRun.ran => UserCountsAreSuccesses(userRun.res)

----------------------------------------------------------------------------
(* C33 *)

\* every department of the extract that the run matched to a row of the
\* target has status '0' in the table the run left
MatchedDeptsActive(run) ==
    \A d \in SrcIds(run.src) \cap DOMAIN RuoyiDeptMap(run.res.listed) :
        DeptRow(run.res.db, RuoyiDeptMap(run.res.listed)[d].dept_id).status = "0"

\* every user of the extract that the run matched to a row of the target has
\* status '0' in the table the run left
MatchedUsersActive(run) ==
    \A k \in SrcKeys(run.src) \cap DOMAIN RuoyiUserMap(run.res.listed) :
        \A i \in DOMAIN run.res.db.users :
            run.res.db.users[i].user_id = RuoyiUserMap(run.res.listed)[k].user_id =>
                run.res.db.users[i].status = "0"

\* C33: after a failure-free real run, every department and every user that
\* is in the source and matched to a target row is active in the target,
\* also when that row had been disabled by an earlier run in which the
\* entity was absent from the source.
C33_SourcePresentEndActive ==
    /\ CleanRealDept(deptRun) => MatchedDeptsActive(deptRun)
    /\ CleanRealUser(userRun) => MatchedUsersActive(userRun)

----------------------------------------------------------------------------
(* C34 *)

\* the database with the effect of one call, which is none when it failed
AppliedUserCall(db, c) ==
    IF ~c.ok THEN db
    ELSE IF c.op = "create_user"
    THEN [users |-> Append(db.users,
                           InsertedUser([user_name |-> c.user_name, nick_name |-> c.nick_name,
                                         email |-> c.email, dept_id |-> c.dept_id,
                                         feishu_union_id |-> c.key,
                                         feishu_open_id |-> c.feishu_open_id],
                                        LastUserRowId(db.users))),
          roles |-> db.roles \cup {<<LastUserRowId(db.users), DefaultRoleId>>}]
    ELSE IF c.op = "update_user"
    THEN [db EXCEPT !.users = UpdateUserRows(@, [user_id |-> c.id, dept_id |-> c.dept_id,
                                                 nick_name |-> c.nick_name, email |-> c.email,
                                                 feishu_open_id |-> c.feishu_open_id])]
    ELSE [db EXCEPT !.users = DisableUserRows(@, c.id)]

\* the table with the effect of one call, which is none when it failed
AppliedDeptCall(table, c) ==
    IF ~c.ok THEN table
    ELSE IF c.op = "create_department"
    THEN Append(table, InsertedDept([dept_name |-> c.dept_name, parent_id |-> c.parent_id,
                                     ancestors |-> c.ancestors, level |-> c.level,
                                     feishu_dept_id |-> c.key], c.id))
    ELSE IF c.op = "update_department"
    THEN UpdateDeptRows(table, c.id, c)
    ELSE DisableDeptRows(table, c.id)

RECURSIVE SuccessesApplied(_, _, _, _)
\* the target `db` with the effects of the successful calls among calls[i..],
\* in the order of the calls; users tells which of the two phases
SuccessesApplied(db, calls, i, users) ==
    IF i > Len(calls) THEN db
    ELSE SuccessesApplied(IF users THEN AppliedUserCall(db, calls[i])
                          ELSE AppliedDeptCall(db, calls[i]),
                          calls, i + 1, users)

\* the rows of sys_user the run added and the rows of sys_user_role it added
\* are those of the same users, each with the default role
RoleWithEveryNewUser(run) ==
    run.res.db.roles \ run.pre.roles =
        {<<id, DefaultRoleId>> :
            id \in {run.res.db.users[i].user_id : i \in DOMAIN run.res.db.users}
                   \ {run.pre.users[i].user_id : i \in DOMAIN run.pre.users}}

\* C34: every write is its own atomic unit.  After a real run the target
\* holds a new user row if and only if it holds the default role row of that
\* user, and it is the target before the run with the effects of exactly
\* the successful calls: a failed create, update or disable call left it as
\* it was before the call, and what earlier calls committed is kept.
C34_WriteAtomicity ==
    /\ (userRun.ran /\ ~userRun.dry) =>
        /\ RoleWithEveryNewUser(userRun)
        /\ userRun.res.db = SuccessesApplied(userRun.pre, userRun.res.calls, 1, TRUE)
    /\ (deptRun.ran /\ ~deptRun.dry) =>
        deptRun.res.db = SuccessesApplied(deptRun.pre, deptRun.res.calls, 1, FALSE)

\* a real user run whose first create_user failed and whose second one
\* succeeded: the target has one row more, of the second user with its role,
\* and none of the first user
C34_Witness ==
    /\ userRun.ran
    /\ ~userRun.dry
    /\ Len(userRun.res.calls) >= 2
    /\ userRun.res.calls[1].op = "create_user"
    /\ ~userRun.res.calls[1].ok
    /\ userRun.res.calls[2].op = "create_user"
    /\ userRun.res.calls[2].ok
    /\ Len(userRun.res.db.users) = Len(userRun.pre.users) + 1
    /\ userRun.res.calls[1].key \notin UserKeys(userRun.res.db.users)
    /\ userRun.res.calls[2].key \in UserKeys(userRun.res.db.users)
    /\ Cardinality(userRun.res.db.roles) = Cardinality(userRun.pre.roles) + 1

----------------------------------------------------------------------------
(* C35 *)

Transient(outcome) == outcome \in {"ConnectionError", "Timeout"}

\* the first of the MAX_RETRIES attempts that ends in no connection error
\* and no timeout; 0 when all of them end in one
FirstSettled(outcomes) ==
    IF \A k \in 1..MAX_RETRIES : Transient(outcomes[k]) THEN 0
    ELSE CHOOSE k \in 1..MAX_RETRIES :
            /\ ~Transient(outcomes[k])
            /\ \A j \in 1..(k - 1) : Transient(outcomes[j])

\* the number of attempts made
RequestsMade(events) == Cardinality({j \in DOMAIN events : events[j] = "request"})

\* the events are attempts with exactly one sleep between two of them: no
\* sleep before the first attempt and none after the last
SleepOnlyBetweenAttempts(events) ==
    /\ events # <<>>
    /\ \A j \in DOMAIN events : events[j] = (IF j % 2 = 1 THEN "request" ELSE "sleep")
    /\ events[Len(events)] = "request"

\* C35: a call of request_with_retry makes at most MAX_RETRIES attempts; when
\* the first attempt that ends in no connection error and no timeout has a
\* response, the call returns that response and makes no further attempt;
\* it sleeps only between attempts; when MAX_RETRIES attempts in a row end
\* in a connection error or timeout it raises the error of the last one; it
\* never returns without a response.
C35_BoundedTransientRetry ==
    last_call.fn = "request_with_retry" =>
        /\ RequestsMade(last_call.ret.events) <= MAX_RETRIES
        /\ SleepOnlyBetweenAttempts(last_call.ret.events)
        /\ last_call.ret.result # "none"
        /\ last_call.ret.attempt = RequestsMade(last_call.ret.events)
        /\ (FirstSettled(last_call.arg) # 0
            /\ last_call.arg[FirstSettled(last_call.arg)] = "response") =>
                /\ last_call.ret.result = "response"
                /\ last_call.ret.attempt = FirstSettled(last_call.arg)
        /\ FirstSettled(last_call.arg) = 0 =>
                /\ last_call.ret.result = "raised"
                /\ last_call.ret.attempt = MAX_RETRIES

\* a call whose first two attempts end in a timeout and a connection error
\* and whose third attempt has a response: the response of the third attempt
\* is returned after two sleeps, and no fourth attempt is made although it
\* would have a response as well
C35_Witness ==
    /\ last_call.fn = "request_with_retry"
    /\ last_call.arg = <<"Timeout", "ConnectionError", "response", "response">>
    /\ last_call.ret.result = "response"
    /\ last_call.ret.attempt = MAX_RETRIES
    /\ last_call.ret.events = <<"request", "sleep", "request", "sleep", "request">>

----------------------------------------------------------------------------
(* C36 *)

\* the rate-limit responses that the worker fetches of get_all_users receive
\* together
RECURSIVE TotalLimitResponses(_, _)
TotalLimitResponses(rs, ds) ==
    IF ds = {} THEN 0
    ELSE LET d == CHOOSE x \in ds : TRUE
         IN LimitResponses(ResponseTo(rs, "users", d)) + TotalLimitResponses(rs, ds \ {d})

\* get_all_users has ended: the pool has shut down and the users are merged
GetAllUsersEnded == fetch_pc \in {"export", "exited"} /\ DOMAIN futures # {}

\* C36: when get_all_users ends, retry_counter['count'] is the number of
\* rate-limit responses that all worker fetches received together, under
\* every interleaving of the workers.
C36_NoIncrementLost ==
    GetAllUsersEnded => retry_counter = TotalLimitResponses(responses, DOMAIN futures)

\* every worker has counted its own rate-limit responses when get_all_users
\* ends, whatever became of the shared count
C36_EveryWorkerCounted ==
    GetAllUsersEnded =>
        \A d \in DOMAIN futures :
            /\ in_worker[d].loaded = <<>>
            /\ in_worker[d].counted = LimitResponses(ResponseTo(responses, "users", d))

----------------------------------------------------------------------------
(* C37: the sequential and the concurrent fetch of the users *)

RECURSIVE SequentialKeep(_, _, _)
\* the loop "for user in users" of get_all_users_sequential from the j-th
\* user of a department on: the users appended to all_users
SequentialKeep(users, j, seen_ids) ==
    IF j > Len(users) THEN <<>>
    ELSE IF users[j].user_id # "" /\ users[j].user_id \notin seen_ids
         THEN <<users[j]>> \o SequentialKeep(users, j + 1, seen_ids \cup {users[j].user_id})
         ELSE SequentialKeep(users, j + 1, seen_ids)

RECURSIVE SequentialFrom(_, _, _, _, _)
\* the loop "for i, dept_id in enumerate(dept_ids, 1)" of
\* get_all_users_sequential from the i-th department on; an exception of
\* get_users_by_department leaves the function
SequentialFrom(o, rs, dept_ids, i, all) ==
    IF i > Len(dept_ids) THEN [ok |-> TRUE, users |-> all]
    ELSE LET Fetched(d) == get_users_by_department(o, d, ResponseTo(rs, "users", d))
             Extended(r) == all \o SequentialKeep(r.users, 1, UserIds(all))
         IN IF Fetched(dept_ids[i]).ok
            THEN SequentialFrom(o, rs, dept_ids, i + 1, Extended(Fetched(dept_ids[i])))
            ELSE [ok |-> FALSE, users |-> <<>>]

\* Variant of get_all_users_sequential: the root department "0" is not
\* fetched.
get_all_users_sequential_NoRoot(o, rs, dept_ids_list) ==
    SequentialFrom(o, rs, dept_ids_list, 1, <<>>)

\* get_all_users_sequential: all_users, or an exception
get_all_users_sequential(o, rs, dept_ids_list) ==
    SequentialFrom(o, rs, <<"0">> \o dept_ids_list, 1, <<>>)

\* no user_id twice in a list of users
EachOnce(list) == \A i, j \in DOMAIN list : list[i].user_id = list[j].user_id => i = j

\* no fetch of the users of a department fails
NoFetchFails ==
    \A d \in DOMAIN futures :
        get_users_by_department(feishu_org, d, ResponseTo(responses, "users", d)).ok

\* what get_all_users_sequential returns for the department list and the
\* responses of the concurrent fetch
SequentialResult ==
    get_all_users_sequential(feishu_org, responses,
                             [i \in DOMAIN dept_list |-> dept_list[i].dept_id])

\* C37: when no department fetch fails, get_all_users_sequential and
\* get_all_users, given the same department list and the same responses,
\* return the same user_ids, each once, in whatever order the workers of
\* get_all_users finish and are collected.
C37_SequentialAndConcurrentAgree ==
    (GetAllUsersEnded /\ NoFetchFails) =>
        /\ SequentialResult.ok
        /\ UserIds(SequentialResult.users) = UserIds(all_users)
        /\ EachOnce(SequentialResult.users)
        /\ EachOnce(all_users)

\* the workers finish in an order that makes the concurrent result begin
\* with w2, a member of two departments, while the sequential result begins
\* with w1
C37_Witness ==
    /\ GetAllUsersEnded
    /\ NoFetchFails
    /\ feishu_org = OrgNested
    /\ Len(all_users) = Len(OrgNested.users)
    /\ all_users[1].user_id = "w2"
    /\ SequentialResult.users[1].user_id = "w1"
    /\ total_fetched > Len(all_users)

----------------------------------------------------------------------------
(* C38: the level of the extract and the level calculate_level computes *)

\* what calculate_level returns for the department of row i of an extract,
\* in a process that has called it for no department yet
ComputedLevel(depts, i) ==
    calculate_level(depts[i].dept_id, FeishuDeptsDict(depts), EmptyDict, 1).level

\* C38: for every department that get_department_info has fetched, the level
\* it records in the extract is the level calculate_level computes for the
\* department from the parent pointers of that extract.
C38_OneLevelDefinition ==
    \A i \in DOMAIN dept_list : dept_list[i].level = ComputedLevel(dept_list, i)

\* the level get_department_info records is one less than the level
\* calculate_level computes: the children of "0" are recorded with 0 and
\* computed as 1
C38_ExtractLevelIsOneLess ==
    \A i \in DOMAIN dept_list : dept_list[i].level + 1 = ComputedLevel(dept_list, i)

----------------------------------------------------------------------------
(* C39: the update decision of the REST variant *)

\* row i of the extract is matched to a user of the target whose name,
\* email, department and correlation value are the source values
RestUnchanged(arg, i) ==
    LET Same(key, m) ==
            /\ key # ""
            /\ m[key].nickName = arg.users[i].name
            /\ m[key].email = arg.users[i].enterprise_email
            /\ m[key].deptId = DictGet(arg.dept_id_map, arg.users[i].dept_id, DefaultRootId)
            /\ m[key].remark = arg.users[i].union_id
    IN Same(RestMatchKey(arg.users[i], RestUserMap(arg.ruoyi_users)),
            RestUserMap(arg.ruoyi_users))

\* C39: in sync_users of the REST variant a source user matched to a target
\* user whose name, email, department and correlation value equal the
\* source values receives no update_user call and is not counted, so a run
\* on unchanged data reports zero updates.
C39_NoUpdateWithoutDrift ==
    last_call.fn = "sync_users" =>
        /\ \A i \in DOMAIN last_call.arg.users :
              RestUnchanged(last_call.arg, i) =>
                  \A j \in DOMAIN last_call.ret.calls :
                      ~(last_call.ret.calls[j].row = i
                        /\ last_call.ret.calls[j].op = "update_user")
        /\ (\A i \in DOMAIN last_call.arg.users : RestUnchanged(last_call.arg, i))
              => last_call.ret.update_count = 0

\* what the loop does: every row of the extract gets one call, update_user
\* when a user of the target is found for it and create_user otherwise,
\* whatever the fields of the user found
C39_OneCallForEveryRow ==
    last_call.fn = "sync_users" =>
        /\ Len(last_call.ret.calls) = Len(last_call.arg.users)
        /\ \A i \in DOMAIN last_call.arg.users :
              /\ last_call.ret.calls[i].row = i
              /\ last_call.ret.calls[i].op =
                    (IF RestMatchKey(last_call.arg.users[i],
                                     RestUserMap(last_call.arg.ruoyi_users)) = ""
                     THEN "create_user" ELSE "update_user")

====
